---- MODULE Spec2Model ----
(***************************************************************************)
(* Streak and completion-rate engine of the habit tracker                  *)
(* (apps/api/src/routes/analytics.ts, interval-capable variant).           *)
(*                                                                         *)
(* Time is counted in ticks; one day (86400000 ms in the source) is        *)
(* TicksPerDay ticks, so an instant carries a time of day.  A civil date   *)
(* (the "YYYY-MM-DD" strings of the source) is the number of the day since *)
(* 1970-01-01; the order of these numbers is the order of the strings.     *)
(* A nullable integer column (targetPerWeek, intervalDays) holds 0 for     *)
(* NULL: the source only tests these values for truthiness.                *)
(***************************************************************************)
EXTENDS Integers, Sequences, FiniteSets

VARIABLES habit, completions, now, analytics,
          users, refreshTokens, tokensIssued, serverTime,
          habits, habitCompletions, inflight, last,
          client

\* the server's tables, the number of refresh tokens it has issued, its clock,
\* the requests it is handling and its latest response
serverVars == <<users, refreshTokens, tokensIssued, serverTime,
                habits, habitCompletions, inflight, last>>

vars == <<habit, completions, now, analytics,
          users, refreshTokens, tokensIssued, serverTime,
          habits, habitCompletions, inflight, last, client>>

----------------------------------------------------------------------------
(* Bounds of the model *)

\* ticks per day: resolution of the time of day
TicksPerDay == 2
\* the clock reads a tick of day MaxDay - 1 or of day MaxDay
MaxDay == 15
\* the streak runs record completions from StreakBack days ago to tomorrow
StreakBack == 6
\* the rate runs record completions from RateBack days ago to today
RateBack == 5
\* WEEKLY habits have targetPerWeek in 1..MaxTarget
MaxTarget == 3
\* INTERVAL habits have intervalDays in 2..MaxInterval
MaxInterval == 3

----------------------------------------------------------------------------
(* Dates *)

\* Date.prototype.toISOString().split('T')[0]: the civil (UTC) date of an instant
isoDate(ts) == ts \div TicksPerDay

\* new Date("YYYY-MM-DD").getTime(): midnight UTC of a civil date
parseDate(d) == d * TicksPerDay

\* Date.prototype.getDay(): 0 = Sunday .. 6 = Saturday; 1970-01-01 was a Thursday
getDay(ts) == ((ts \div TicksPerDay) + 4) % 7

SetMax(S) == CHOOSE x \in S : \A y \in S : y <= x

SetMin(S) == CHOOSE x \in S : \A y \in S : x <= y

----------------------------------------------------------------------------
(* Array helpers of calculateStreak *)

RECURSIVE insertSorted(_, _)
insertSorted(s, x) ==
  IF s = <<>> THEN <<x>>
  ELSE IF x <= Head(s) THEN <<x>> \o s
  ELSE <<Head(s)>> \o insertSorted(Tail(s), x)

\* Array.prototype.sort() on ISO date strings: ascending
RECURSIVE sort(_)
sort(s) == IF s = <<>> THEN <<>> ELSE insertSorted(sort(Tail(s)), Head(s))

\* Array.prototype.reverse()
RECURSIVE reverse(_)
reverse(s) == IF s = <<>> THEN <<>> ELSE Append(reverse(Tail(s)), Head(s))

RECURSIVE uniqueFrom(_, _)
uniqueFrom(s, seen) ==
  IF s = <<>> THEN <<>>
  ELSE IF Head(s) \in seen THEN uniqueFrom(Tail(s), seen)
  ELSE <<Head(s)>> \o uniqueFrom(Tail(s), seen \cup {Head(s)})

\* unique without the Set: repeated dates stay in the array
unique_keepAll(s) == s

\* [...new Set(sortedDates)]: first occurrences, in order
unique(s) == uniqueFrom(s, {})

\* sortedDates without .reverse(): oldest first
sortedDates_noReverse(cs) == sort([i \in 1..Len(cs) |-> isoDate(cs[i])])

\* completions.map(d => new Date(d).toISOString().split('T')[0]).sort().reverse()
sortedDates(cs) == reverse(sort([i \in 1..Len(cs) |-> isoDate(cs[i])]))

----------------------------------------------------------------------------
(* calculateIntervalStreak *)

\* the for loop over the gaps between neighbouring dates (newest first);
\* i is the 1-based index of currentDate
RECURSIVE intervalLoop(_, _, _, _, _)
intervalLoop(uniqueDates, intervalDays, i, tempStreak, longestStreak) ==
  IF i > Len(uniqueDates) - 1
    THEN [tempStreak |-> tempStreak, longestStreak |-> longestStreak]
    ELSE LET daysDiff == (parseDate(uniqueDates[i]) - parseDate(uniqueDates[i + 1]))
                           \div TicksPerDay
         IN IF daysDiff <= intervalDays
              THEN intervalLoop(uniqueDates, intervalDays, i + 1,
                                tempStreak + 1, longestStreak)
              ELSE intervalLoop(uniqueDates, intervalDays, i + 1, 1,
                                IF tempStreak > longestStreak
                                  THEN tempStreak ELSE longestStreak)

\* calculateIntervalStreak without the last longestStreak update after the loop
calculateIntervalStreak_noFinalMax(uniqueDates, intervalDays, clock) ==
  LET today == isoDate(clock)
      daysSinceLastCompletion ==
        (parseDate(today) - parseDate(uniqueDates[1])) \div TicksPerDay
      streakActive == daysSinceLastCompletion <= intervalDays
      loop == intervalLoop(uniqueDates, intervalDays, 1, 1, 0)
  IN [current |-> IF streakActive THEN loop.tempStreak ELSE 0,
      longest |-> loop.longestStreak]

\* calculateIntervalStreak with streakActive = daysSinceLastCompletion < intervalDays
calculateIntervalStreak_strictActive(uniqueDates, intervalDays, clock) ==
  LET today == isoDate(clock)
      daysSinceLastCompletion ==
        (parseDate(today) - parseDate(uniqueDates[1])) \div TicksPerDay
      streakActive == daysSinceLastCompletion < intervalDays
      loop == intervalLoop(uniqueDates, intervalDays, 1, 1, 0)
      longestStreak == IF loop.tempStreak > loop.longestStreak
                         THEN loop.tempStreak ELSE loop.longestStreak
  IN [current |-> IF streakActive THEN loop.tempStreak ELSE 0,
      longest |-> longestStreak]

\* calculateIntervalStreak with tempStreak starting at 0, as in calculateStreak
calculateIntervalStreak_tempFromZero(uniqueDates, intervalDays, clock) ==
  LET today == isoDate(clock)
      daysSinceLastCompletion ==
        (parseDate(today) - parseDate(uniqueDates[1])) \div TicksPerDay
      streakActive == daysSinceLastCompletion <= intervalDays
      loop == intervalLoop(uniqueDates, intervalDays, 1, 0, 0)
      longestStreak == IF loop.tempStreak > loop.longestStreak
                         THEN loop.tempStreak ELSE loop.longestStreak
  IN [current |-> IF streakActive THEN loop.tempStreak ELSE 0,
      longest |-> longestStreak]

calculateIntervalStreak(uniqueDates, intervalDays, clock) ==
  LET today == isoDate(clock)
      daysSinceLastCompletion ==
        (parseDate(today) - parseDate(uniqueDates[1])) \div TicksPerDay
      streakActive == daysSinceLastCompletion <= intervalDays
      loop == intervalLoop(uniqueDates, intervalDays, 1, 1, 0)
      longestStreak == IF loop.tempStreak > loop.longestStreak
                         THEN loop.tempStreak ELSE loop.longestStreak
  IN [current |-> IF streakActive THEN loop.tempStreak ELSE 0,
      longest |-> longestStreak]

----------------------------------------------------------------------------
(* calculateStreak *)

\* the first for loop: runs of dates exactly one day apart; i is 1-based
RECURSIVE dayLoop(_, _, _, _)
dayLoop(uniqueDates, i, tempStreak, longestStreak) ==
  IF i > Len(uniqueDates)
    THEN [tempStreak |-> tempStreak, longestStreak |-> longestStreak]
    ELSE IF i = 1
      THEN dayLoop(uniqueDates, i + 1, 1, longestStreak)
      ELSE LET dayDiff == (parseDate(uniqueDates[i - 1]) - parseDate(uniqueDates[i]))
                            \div TicksPerDay
           IN IF dayDiff = 1
                THEN dayLoop(uniqueDates, i + 1, tempStreak + 1, longestStreak)
                ELSE dayLoop(uniqueDates, i + 1, 1,
                             IF tempStreak > longestStreak
                               THEN tempStreak ELSE longestStreak)

\* the second loop: walk back from checkDate, one day per matching date
RECURSIVE walkBack(_, _, _, _)
walkBack(uniqueDates, i, checkDate, currentStreak) ==
  IF i > Len(uniqueDates) THEN currentStreak
  ELSE IF uniqueDates[i] = checkDate
    THEN walkBack(uniqueDates, i + 1,
                  isoDate(parseDate(checkDate) - TicksPerDay), currentStreak + 1)
  ELSE IF uniqueDates[i] < checkDate THEN currentStreak
  ELSE walkBack(uniqueDates, i + 1, checkDate, currentStreak)

\* calculateStreak without the recalculation of the current streak from
\* today/yesterday backwards
calculateStreak_noWalk(cs, frequency, customDays, intervalDays, clock) ==
  IF Len(cs) = 0 THEN [current |-> 0, longest |-> 0]
  ELSE
    LET uniqueDates == unique(sortedDates(cs))
    IN IF frequency = "INTERVAL" /\ intervalDays # 0
         THEN calculateIntervalStreak(uniqueDates, intervalDays, clock)
         ELSE
           LET today == isoDate(clock)
               yesterday == isoDate(clock - TicksPerDay)
               streakActive == uniqueDates[1] = today \/ uniqueDates[1] = yesterday
               loop == dayLoop(uniqueDates, 1, 0, 0)
               longestStreak == IF loop.tempStreak > loop.longestStreak
                                  THEN loop.tempStreak ELSE loop.longestStreak
           IN [current |-> IF streakActive THEN loop.tempStreak ELSE 0,
               longest |-> longestStreak]

\* calculateStreak made aware of the schedule: a CUSTOM habit's streak is
\* active only when its latest completion fell on a scheduled weekday
calculateStreak_scheduleAware(cs, frequency, customDays, intervalDays, clock) ==
  IF Len(cs) = 0 THEN [current |-> 0, longest |-> 0]
  ELSE
    LET uniqueDates == unique(sortedDates(cs))
    IN IF frequency = "INTERVAL" /\ intervalDays # 0
         THEN calculateIntervalStreak(uniqueDates, intervalDays, clock)
         ELSE
           LET today == isoDate(clock)
               yesterday == isoDate(clock - TicksPerDay)
               scheduled == frequency = "CUSTOM" =>
                              getDay(parseDate(uniqueDates[1])) \in customDays
               streakActive == (uniqueDates[1] = today \/ uniqueDates[1] = yesterday)
                               /\ scheduled
               loop == dayLoop(uniqueDates, 1, 0, 0)
               longestStreak == IF loop.tempStreak > loop.longestStreak
                                  THEN loop.tempStreak ELSE loop.longestStreak
               checkDate == IF uniqueDates[1] = today THEN today ELSE yesterday
           IN [current |-> IF streakActive
                             THEN walkBack(uniqueDates, 1, checkDate, 0)
                             ELSE 0,
               longest |-> longestStreak]

calculateStreak(cs, frequency, customDays, intervalDays, clock) ==
  IF Len(cs) = 0 THEN [current |-> 0, longest |-> 0]
  ELSE
    LET uniqueDates == unique(sortedDates(cs))
    IN IF frequency = "INTERVAL" /\ intervalDays # 0
         THEN calculateIntervalStreak(uniqueDates, intervalDays, clock)
         ELSE
           LET today == isoDate(clock)
               yesterday == isoDate(clock - TicksPerDay)
               streakActive == uniqueDates[1] = today \/ uniqueDates[1] = yesterday
               loop == dayLoop(uniqueDates, 1, 0, 0)
               longestStreak == IF loop.tempStreak > loop.longestStreak
                                  THEN loop.tempStreak ELSE loop.longestStreak
               checkDate == IF uniqueDates[1] = today THEN today ELSE yesterday
           IN [current |-> IF streakActive
                             THEN walkBack(uniqueDates, 1, checkDate, 0)
                             ELSE 0,
               longest |-> longestStreak]

----------------------------------------------------------------------------
(* calculateCompletionRate *)

\* Math.floor((now - start) / 86400000) + 1
daysSinceCreation(createdAt, clock) == ((clock - createdAt) \div TicksPerDay) + 1

\* the CUSTOM loop: days start + i, 0 <= i < daysSinceCreation, whose weekday
\* is one of customDays
customExpected(start, customDays, days) ==
  Cardinality({i \in 0..(days - 1) : getDay(start + i * TicksPerDay) \in customDays})

\* expectedCompletions with WEEKLY counted once a week, targetPerWeek ignored
expectedCompletions_weeklyOnce(start, frequency, customDays, targetPerWeek, intervalDays, days) ==
  IF frequency = "DAILY" THEN days
  ELSE IF frequency = "WEEKLY" THEN (days + 6) \div 7
  ELSE IF frequency = "CUSTOM" /\ customDays # {}
    THEN customExpected(start, customDays, days)
  ELSE IF frequency = "INTERVAL" /\ intervalDays # 0
    THEN (days \div intervalDays) + 1
  ELSE 0

\* the expected number of completions, for daysSinceCreation = days > 0
expectedCompletions(start, frequency, customDays, targetPerWeek, intervalDays, days) ==
  IF frequency = "DAILY" THEN days
  ELSE IF frequency = "WEEKLY"
    THEN ((days + 6) \div 7) * (IF targetPerWeek # 0 THEN targetPerWeek ELSE 1)
  ELSE IF frequency = "CUSTOM" /\ customDays # {}
    THEN customExpected(start, customDays, days)
  ELSE IF frequency = "INTERVAL" /\ intervalDays # 0
    THEN (days \div intervalDays) + 1
  ELSE 0

\* Math.round((length / expected) * 100) for length >= 0 < expected: the
\* nearest integer, a half rounding up.  The double-precision result of the
\* source equals this exact one for every length < 40 and expected < 200
\* other than 23/40.
roundPercent(length, expected) == (200 * length + expected) \div (2 * expected)

\* calculateCompletionRate without Math.min(100, ...)
calculateCompletionRate_noClamp(cs, createdAt, frequency, customDays, targetPerWeek, intervalDays, clock) ==
  LET days == daysSinceCreation(createdAt, clock)
  IN IF days <= 0 THEN 0
     ELSE LET expected == expectedCompletions(createdAt, frequency, customDays,
                                              targetPerWeek, intervalDays, days)
          IN IF expected = 0 THEN 0
             ELSE roundPercent(Len(cs), expected)

calculateCompletionRate(cs, createdAt, frequency, customDays, targetPerWeek, intervalDays, clock) ==
  LET days == daysSinceCreation(createdAt, clock)
  IN IF days <= 0 THEN 0
     ELSE LET expected == expectedCompletions(createdAt, frequency, customDays,
                                              targetPerWeek, intervalDays, days)
          IN IF expected = 0 THEN 0
             ELSE LET r == roundPercent(Len(cs), expected)
                  IN IF r < 100 THEN r ELSE 100

----------------------------------------------------------------------------
(* The engine of routes/analytics.ts before INTERVAL habits: calculateStreak *)
(* has no intervalDays parameter and calculateCompletionRate no INTERVAL     *)
(* branch.  The file names them as the other variant does.                   *)

datedCalculateStreak(cs, frequency, customDays, clock) ==
  IF Len(cs) = 0 THEN [current |-> 0, longest |-> 0]
  ELSE
    LET uniqueDates == unique(sortedDates(cs))
        today == isoDate(clock)
        yesterday == isoDate(clock - TicksPerDay)
        streakActive == uniqueDates[1] = today \/ uniqueDates[1] = yesterday
        loop == dayLoop(uniqueDates, 1, 0, 0)
        longestStreak == IF loop.tempStreak > loop.longestStreak
                           THEN loop.tempStreak ELSE loop.longestStreak
        checkDate == IF uniqueDates[1] = today THEN today ELSE yesterday
    IN [current |-> IF streakActive
                      THEN walkBack(uniqueDates, 1, checkDate, 0)
                      ELSE 0,
        longest |-> longestStreak]

\* the expected count with every day of a CUSTOM habit counted
datedExpectedCompletions_customEveryDay(start, frequency, customDays, targetPerWeek, days) ==
  IF frequency = "DAILY" THEN days
  ELSE IF frequency = "WEEKLY"
    THEN ((days + 6) \div 7) * (IF targetPerWeek # 0 THEN targetPerWeek ELSE 1)
  ELSE IF frequency = "CUSTOM" /\ customDays # {} THEN days
  ELSE 0

datedExpectedCompletions(start, frequency, customDays, targetPerWeek, days) ==
  IF frequency = "DAILY" THEN days
  ELSE IF frequency = "WEEKLY"
    THEN ((days + 6) \div 7) * (IF targetPerWeek # 0 THEN targetPerWeek ELSE 1)
  ELSE IF frequency = "CUSTOM" /\ customDays # {}
    THEN customExpected(start, customDays, days)
  ELSE 0

datedCalculateCompletionRate(cs, createdAt, frequency, customDays, targetPerWeek, clock) ==
  LET days == daysSinceCreation(createdAt, clock)
  IN IF days <= 0 THEN 0
     ELSE LET expected == datedExpectedCompletions(createdAt, frequency, customDays,
                                                   targetPerWeek, days)
          IN IF expected = 0 THEN 0
             ELSE LET r == roundPercent(Len(cs), expected)
                  IN IF r < 100 THEN r ELSE 100

----------------------------------------------------------------------------
(* Histograms of GET /api/analytics/habit/:id.  A Date of the source is an  *)
(* instant; its calendar fields are read in UTC, the zone of the server's   *)
(* container.  A month is a record of a year and a month index 0..11, which *)
(* the source prints as "YYYY-MM".                                          *)

\* the number of week buckets and of month buckets
Weeks == 12

Months == 12

\* the civil year and month index of an instant: getFullYear(), getMonth()
\* and toISOString().slice(0, 7) all read them from the proleptic Gregorian
\* calendar
civilMonth(ts) ==
  LET z == (ts \div TicksPerDay) + 719468
      era == z \div 146097
      doe == z - era * 146097
      yoe == (doe - (doe \div 1460) + (doe \div 36524) - (doe \div 146096)) \div 365
      doy == doe - (365 * yoe + (yoe \div 4) - (yoe \div 100))
      mp == (5 * doy + 2) \div 153
      m == IF mp < 10 THEN mp + 3 ELSE mp - 9
      y == yoe + era * 400 + (IF m <= 2 THEN 1 ELSE 0)
  IN [year |-> y, month |-> m - 1]

\* new Date(year, monthIndex, 1), read back as a month: a month index
\* outside 0..11 carries into the year
newMonthDate(year, monthIndex) ==
  [year |-> year + (monthIndex \div 12), month |-> monthIndex % 12]

\* byDay with Monday as bucket 0
byDay_mondayFirst(S) ==
  LET days == {<<c, (getDay(parseDate(c)) + 6) % 7>> : c \in S}
  IN [day \in 0..6 |-> Cardinality({p \in days : p[2] = day})]

\* byDay: one increment per completion, in the bucket of getDay()
byDay(S) ==
  LET days == {<<c, getDay(parseDate(c))>> : c \in S}
  IN [day \in 0..6 |-> Cardinality({p \in days : p[2] = day})]

\* byWeek: for i = 11 down to 0, the completions from weekStart to weekEnd
byWeek(S, clock) ==
  LET today == getDay(clock)
      completedAt == {parseDate(c) : c \in S}
  IN [k \in 1..Weeks |->
        LET i == Weeks - k
            weekStart == clock - (i * 7 + today) * TicksPerDay
            weekEnd == weekStart + 6 * TicksPerDay
        IN [week |-> isoDate(weekStart),
            count |-> Cardinality({d \in completedAt : d >= weekStart /\ d <= weekEnd})]]

\* byMonth without the carry of the month index into the year
byMonth_noYearCarry(S, clock) ==
  LET today == civilMonth(clock)
      completedIn == {<<c, civilMonth(parseDate(c))>> : c \in S}
  IN [k \in 1..Months |->
        LET i == Months - k
            monthStr == [year |-> today.year, month |-> (today.month - i) % 12]
        IN [month |-> monthStr,
            count |-> Cardinality({p \in completedIn : p[2] = monthStr})]]

\* byMonth: for i = 11 down to 0, the completions of the month i months back
byMonth(S, clock) ==
  LET today == civilMonth(clock)
      completedIn == {<<c, civilMonth(parseDate(c))>> : c \in S}
  IN [k \in 1..Months |->
        LET i == Months - k
            monthStr == newMonthDate(today.year, today.month - i)
        IN [month |-> monthStr,
            count |-> Cardinality({p \in completedIn : p[2] = monthStr})]]

----------------------------------------------------------------------------
(* State: one habit row, its habit_completions rows, the clock, and the     *)
(* last answer of GET /api/analytics/habit/:id                              *)

\* the day sets a CUSTOM habit is given in the model
CustomDaySets == {{0}, {1, 3, 5}, {5, 6}, 0..6}

\* frequency kind and parameters of a stored habit; a parameter the kind
\* needs can be NULL (0, {}) after PATCH changed the frequency alone
Rules ==
  [frequency : {"DAILY"}, customDays : {{}}, targetPerWeek : {0}, intervalDays : {0}]
  \cup [frequency : {"WEEKLY"}, customDays : {{}},
        targetPerWeek : 0..MaxTarget, intervalDays : {0}]
  \cup [frequency : {"CUSTOM"}, customDays : CustomDaySets \cup {{}},
        targetPerWeek : {0}, intervalDays : {0}]
  \cup [frequency : {"INTERVAL"}, customDays : {{}},
        targetPerWeek : {0}, intervalDays : {0} \cup 2..MaxInterval]

HabitRow(rule, createdAt) ==
  [frequency |-> rule.frequency, customDays |-> rule.customDays,
   targetPerWeek |-> rule.targetPerWeek, intervalDays |-> rule.intervalDays,
   createdAt |-> createdAt]

\* the instants the clock can read
NowTicks == ((MaxDay - 1) * TicksPerDay)..((MaxDay + 1) * TicksPerDay - 1)

\* the instants a habit can have been created at: before and after the clock
CreatedTicks == 0..((MaxDay + 2) * TicksPerDay - 1)

NoAnalytics ==
  [done |-> FALSE, currentStreak |-> 0, longestStreak |-> 0, completionRate |-> 0,
   completionsByDay |-> <<>>, completionsByWeek |-> <<>>, completionsByMonth |-> <<>>]

RECURSIVE orderByDesc(_)
\* include: { completions: { orderBy: { completedAt: 'desc' } } }, then
\* habit.completions.map(c => c.completedAt): the DATE values as instants
orderByDesc(S) ==
  IF S = {} THEN <<>>
  ELSE <<parseDate(SetMax(S))>> \o orderByDesc(S \ {SetMax(S)})

completionDates == orderByDesc(completions)

today == isoDate(now)

TypeOK ==
  /\ habit \in [frequency : {"DAILY", "WEEKLY", "CUSTOM", "INTERVAL"},
                customDays : SUBSET (0..6), targetPerWeek : 0..7,
                intervalDays : Nat, createdAt : Int]
  /\ completions \subseteq Int
  /\ now \in Nat
  /\ analytics.done \in BOOLEAN
  /\ analytics.currentStreak \in Nat /\ analytics.longestStreak \in Nat
  /\ analytics.completionRate \in Int
  /\ analytics.done =>
       /\ analytics.completionsByDay \in [0..6 -> Nat]
       /\ analytics.completionsByWeek \in [1..Weeks -> [week : Int, count : Nat]]
       /\ DOMAIN analytics.completionsByMonth = 1..Months

\* no credentials, and the response slot before any request
NoCred == [kind |-> "none", userId |-> 0, exp |-> 0]

NoReply ==
  [route |-> "", status |-> 0, cred |-> NoCred, email |-> "", token |-> 0, issued |-> 0,
   access |-> NoCred, habit |-> 0, date |-> 0, includeArchived |-> FALSE, from |-> 0,
   to |-> 0, data |-> {}]

\* the calls of api() the web client can have in flight
Calls == {1, 2}

\* a call of api() that has not begun; at and rt are the tokens the call read,
\* pair the tokens a refresh response carries
NoCall ==
  [pc |-> "idle", at |-> NoCred, rt |-> 0, status |-> 0, refreshes |-> 0, retries |-> 0,
   expired |-> FALSE, pair |-> [accessToken |-> NoCred, refreshToken |-> 0]]

\* the web client before login: no token in memory or in localStorage (null
\* is NoCred resp. 0)
ClientAtRest ==
  client = [accessToken |-> NoCred, refreshToken |-> 0,
            localStorage |-> [accessToken |-> NoCred, refreshToken |-> 0],
            calls |-> [c \in Calls |-> NoCall]]

\* a request slot that handles nothing
Idle == [route |-> "idle"]

\* the request slots of the server: it handles up to two requests at a time
Slots == {1, 2}

\* the server as started on an empty database
ServerAtRest ==
  /\ users = {}
  /\ refreshTokens = {}
  /\ tokensIssued = 0
  /\ serverTime = 0
  /\ habits = {}
  /\ habitCompletions = {}
  /\ inflight = [r \in Slots |-> Idle]
  /\ last = NoReply

----------------------------------------------------------------------------
(* Operations *)

\* POST /api/habits/:id/complete with body.date = d: 400 when the date is
\* already completed, otherwise one new row.  A later analytics request
\* computes everything afresh.
RecordCompletion(d) ==
  /\ d \notin completions
  /\ completions' = completions \cup {d}
  /\ analytics' = NoAnalytics
  /\ UNCHANGED <<habit, now>>
  /\ UNCHANGED <<serverVars, client>>

\* GET /api/analytics/habit/:id: streaks and completion rate of the habit
GetHabitAnalytics ==
  /\ LET streak == calculateStreak(completionDates, habit.frequency,
                                   habit.customDays, habit.intervalDays, now)
         rate == calculateCompletionRate(completionDates, habit.createdAt,
                                         habit.frequency, habit.customDays,
                                         habit.targetPerWeek, habit.intervalDays, now)
     IN analytics' = [done |-> TRUE, currentStreak |-> streak.current,
                      longestStreak |-> streak.longest, completionRate |-> rate,
                      completionsByDay |-> byDay(completions),
                      completionsByWeek |-> byWeek(completions, now),
                      completionsByMonth |-> byMonth(completions, now)]
  /\ UNCHANGED <<habit, completions, now>>
  /\ UNCHANGED <<serverVars, client>>

\* GET /api/analytics/habit/:id of the variant without INTERVAL habits
GetHabitAnalyticsDated ==
  /\ LET streak == datedCalculateStreak(completionDates, habit.frequency,
                                        habit.customDays, now)
         rate == datedCalculateCompletionRate(completionDates, habit.createdAt,
                                              habit.frequency, habit.customDays,
                                              habit.targetPerWeek, now)
     IN analytics' = [done |-> TRUE, currentStreak |-> streak.current,
                      longestStreak |-> streak.longest, completionRate |-> rate,
                      completionsByDay |-> byDay(completions),
                      completionsByWeek |-> byWeek(completions, now),
                      completionsByMonth |-> byMonth(completions, now)]
  /\ UNCHANGED <<habit, completions, now>>
  /\ UNCHANGED <<serverVars, client>>

----------------------------------------------------------------------------
(* Specifications *)

\* Streak runs: the clock reads any instant of day MaxDay (the streaks depend
\* on the dates only relative to today); completions are recorded from
\* StreakBack days ago to tomorrow
Init ==
  /\ \E rule \in Rules : habit = HabitRow(rule, 0)
  /\ now \in {t \in NowTicks : isoDate(t) = MaxDay}
  /\ completions = {}
  /\ analytics = NoAnalytics
  /\ ServerAtRest
  /\ ClientAtRest

Next ==
  \/ \E d \in (today - StreakBack)..(today + 1) : RecordCompletion(d)
  \/ GetHabitAnalytics

Spec == Init /\ [][Next]_vars

\* Rate runs: any creation instant, completions from RateBack days ago to today
InitRate ==
  /\ \E rule \in Rules, createdAt \in CreatedTicks : habit = HabitRow(rule, createdAt)
  /\ now \in NowTicks
  /\ completions = {}
  /\ analytics = NoAnalytics
  /\ ServerAtRest
  /\ ClientAtRest

NextRate ==
  \/ \E d \in (today - RateBack)..today : RecordCompletion(d)
  \/ GetHabitAnalytics

SpecRate == InitRate /\ [][NextRate]_vars

\* Variant runs: a DAILY, WEEKLY or CUSTOM habit whose intervalDays column
\* holds any value (POST and PATCH store the field whatever the kind),
\* created at the epoch, a week before the clock's day or after it; both
\* variants of the handler answer
VariantRules ==
  {[rule EXCEPT !.intervalDays = n] :
     rule \in {x \in Rules : x.frequency # "INTERVAL"}, n \in {0} \cup 2..MaxInterval}

VariantCreatedTicks == {0, 1, (MaxDay - 8) * TicksPerDay + 1, (MaxDay + 1) * TicksPerDay}

InitVariants ==
  /\ \E rule \in VariantRules, createdAt \in VariantCreatedTicks :
       habit = HabitRow(rule, createdAt)
  /\ now \in NowTicks
  /\ completions = {}
  /\ analytics = NoAnalytics
  /\ ServerAtRest
  /\ ClientAtRest

NextVariants ==
  \/ \E d \in (today - RateBack)..today : RecordCompletion(d)
  \/ GetHabitAnalytics
  \/ GetHabitAnalyticsDated

SpecVariants == InitVariants /\ [][NextVariants]_vars

\* Chart runs: a daily habit created on 1970-01-01; the clock reads an
\* instant of Sunday 1972-02-27, of Tuesday 1972-02-29 or of Wednesday
\* 1972-03-01, so that the twelve months cross a year and a leap day
ChartsToday == {787, 789, 790}

\* the dates completed in the chart runs: around the edges of the oldest and
\* of the newest week window, of the oldest month, and of the year
ChartDays == {424, 454, 455, 709, 710, 729, 730, 787, 790, 793}

InitCharts ==
  /\ habit = HabitRow([frequency |-> "DAILY", customDays |-> {}, targetPerWeek |-> 0,
                       intervalDays |-> 0], 0)
  /\ now \in {t \in (SetMin(ChartsToday) * TicksPerDay)..
                    (SetMax(ChartsToday) * TicksPerDay + TicksPerDay - 1) :
                isoDate(t) \in ChartsToday}
  /\ completions = {}
  /\ analytics = NoAnalytics
  /\ ServerAtRest
  /\ ClientAtRest

NextCharts ==
  \/ \E d \in ChartDays : RecordCompletion(d)
  \/ GetHabitAnalytics

SpecCharts == InitCharts /\ [][NextCharts]_vars

----------------------------------------------------------------------------
(* Sessions: apps/api/src/routes/auth.ts and middleware/auth.ts.             *)
(* The server's time is counted in session ticks.  The lifetimes of the two  *)
(* tokens are scaled to these ticks: what the code does with them is to      *)
(* compare an expiry instant with the clock, and 15 minutes < 7 days.        *)
(* A refresh token (a random UUID in the source) is the number of the        *)
(* issue: never one that was issued before.  An id or a token of 0 stands    *)
(* for none.  A handler is cut into steps where it awaits the database       *)
(* between a lookup and the write that depends on it.                        *)

\* sign: { expiresIn: '15m' }
AccessTtl == 1
\* Date.now() + 7 * 24 * 60 * 60 * 1000
RefreshTtl == 2
\* the server's time runs from 0 to MaxClock
MaxClock == 3
\* the refresh tokens randomUUID() can draw, in the order it draws them
Uuids == {1, 2, 3}

Emails == {"test@example.com", "other@example.com"}

Passwords == {"password123"}

\* the rest of the state, left alone by the session routes
engineVars == <<habit, completions, now, analytics>>

habitTables == <<habits, habitCompletions>>

\* a bearer token that is no JWT of this server ('invalid-token')
BadCred == [kind |-> "invalid", userId |-> 0, exp |-> 0]

\* server.jwt.sign({ id, email }) at the instant t
jwtSign(userId, t) == [kind |-> "jwt", userId |-> userId, exp |-> t + AccessTtl]

\* the preHandler hook: 0 lets the request through to the route handler, 401
\* is sent by the hook itself and the handler is skipped
authenticate_ignoreExp(cred, t) == IF cred.kind = "jwt" THEN [status |-> 0, userId |-> cred.userId] ELSE [status |-> 401, userId |-> 0]

authenticate(cred, t) ==
  IF cred.kind = "none" THEN [status |-> 401, userId |-> 0]
  ELSE IF cred.kind = "jwt" /\ t < cred.exp THEN [status |-> 0, userId |-> cred.userId]
  ELSE [status |-> 401, userId |-> 0]

\* a new request is taken up by the first slot that is free
freeSlot(r) == inflight[r] = Idle /\ \A q \in Slots : q < r => inflight[q] # Idle

Reply(route, status) == [NoReply EXCEPT !.route = route, !.status = status]

\* prisma.refreshToken.findUnique({ where: { token } })
storedToken(token) == {row \in refreshTokens : row.token = token}

\* prisma.refreshToken.delete({ where: { id } }) of a row that is stored
deleteToken_keepRow(token) == refreshTokens

deleteToken(token) == refreshTokens \ storedToken(token)

\* prisma.refreshToken.deleteMany({ where: { token } })
deleteManyTokens_keepRows(token) == refreshTokens

deleteManyTokens(token) == refreshTokens \ storedToken(token)

\* randomUUID() and prisma.refreshToken.create for userId, on top of the
\* rows in store
issueTokens(store, userId) ==
  /\ (tokensIssued + 1) \in Uuids
  /\ tokensIssued' = tokensIssued + 1
  /\ refreshTokens' = store \cup {[token |-> tokensIssued + 1, userId |-> userId,
                                   expiresAt |-> serverTime + RefreshTtl]}

\* POST /api/auth/register up to the lookup of the email: 400 when it is
\* taken, otherwise the request goes on to hash the password
Register(r, email, password) ==
  /\ freeSlot(r)
  /\ IF \E u \in users : u.email = email
       THEN /\ last' = [Reply("register", 400) EXCEPT !.email = email]
            /\ UNCHANGED inflight
       ELSE /\ inflight' = [inflight EXCEPT ![r] =
                              [route |-> "register", email |-> email, password |-> password]]
            /\ UNCHANGED last
  /\ UNCHANGED <<users, refreshTokens, tokensIssued, serverTime>>
  /\ UNCHANGED <<habitTables, engineVars, client>>

\* the unique index users_email_key decides prisma.user.create
createUser_noUniqueEmail(email) == TRUE

createUser(email) == ~(\E u \in users : u.email = email)

\* POST /api/auth/register from prisma.user.create on: a unique violation
\* is caught and answered with 500, otherwise the user and the first token
\* pair are stored
RegisterCreate(r) ==
  /\ inflight[r].route = "register"
  /\ LET req == inflight[r]
         id == Cardinality(users) + 1
     IN IF createUser(req.email)
          THEN /\ users' = users \cup {[id |-> id, email |-> req.email, password |-> req.password]}
               /\ issueTokens(refreshTokens, id)
               /\ last' = [Reply("register", 201) EXCEPT !.email = req.email,
                                                          !.issued = tokensIssued + 1,
                                                          !.access = jwtSign(id, serverTime)]
          ELSE /\ last' = [Reply("register", 500) EXCEPT !.email = req.email]
               /\ UNCHANGED <<users, refreshTokens, tokensIssued>>
  /\ inflight' = [inflight EXCEPT ![r] = Idle]
  /\ UNCHANGED <<serverTime, habitTables, engineVars, client>>

\* POST /api/auth/login
Login(email, password) ==
  /\ LET found == {u \in users : u.email = email /\ u.password = password}
     IN IF found = {}
          THEN /\ last' = Reply("login", 401)
               /\ UNCHANGED <<refreshTokens, tokensIssued>>
          ELSE /\ issueTokens(refreshTokens, (CHOOSE u \in found : TRUE).id)
               /\ last' = [Reply("login", 200) EXCEPT
                             !.issued = tokensIssued + 1,
                             !.access = jwtSign((CHOOSE u \in found : TRUE).id, serverTime)]
  /\ UNCHANGED <<users, serverTime, inflight, habitTables, engineVars, client>>

\* POST /api/auth/refresh up to the lookup of the token: 401 when it is not
\* stored, otherwise the handler holds the row and has compared its expiry
\* with the clock
Refresh(r, token) ==
  /\ freeSlot(r)
  /\ IF storedToken(token) = {}
       THEN /\ last' = [Reply("refresh", 401) EXCEPT !.token = token]
            /\ UNCHANGED inflight
       ELSE /\ LET row == CHOOSE x \in storedToken(token) : TRUE
               IN inflight' = [inflight EXCEPT ![r] =
                                 [route |-> "refresh", token |-> token, userId |-> row.userId,
                                  expired |-> row.expiresAt < serverTime]]
            /\ UNCHANGED last
  /\ UNCHANGED <<users, refreshTokens, tokensIssued, serverTime>>
  /\ UNCHANGED <<habitTables, engineVars, client>>

\* the redemption with deleteMany in the place of delete: a row that is gone
\* is no error, and the request goes on to issue a token pair
RefreshRedeem_deleteMany(r) ==
  /\ inflight[r].route = "refresh"
  /\ LET req == inflight[r]
     IN IF req.expired
          THEN /\ refreshTokens' = deleteToken(req.token)
               /\ last' = [Reply("refresh", 401) EXCEPT !.token = req.token]
               /\ UNCHANGED tokensIssued
          ELSE /\ issueTokens(deleteToken(req.token), req.userId)
               /\ last' = [Reply("refresh", 200) EXCEPT !.token = req.token,
                                                         !.issued = tokensIssued + 1,
                                                         !.access = jwtSign(req.userId, serverTime)]
  /\ inflight' = [inflight EXCEPT ![r] = Idle]
  /\ UNCHANGED <<users, serverTime, habitTables, engineVars, client>>

\* POST /api/auth/refresh from prisma.refreshToken.delete({ where: { id } })
\* on.  Deleting a row that is gone throws and the request ends with 500; an
\* expired row is deleted and answered with 401; a live one is replaced by a
\* new token of the same user
RefreshRedeem(r) ==
  /\ inflight[r].route = "refresh"
  /\ LET req == inflight[r]
     IN IF storedToken(req.token) = {}
          THEN /\ last' = [Reply("refresh", 500) EXCEPT !.token = req.token]
               /\ UNCHANGED <<refreshTokens, tokensIssued>>
          ELSE IF req.expired
          THEN /\ refreshTokens' = deleteToken(req.token)
               /\ last' = [Reply("refresh", 401) EXCEPT !.token = req.token]
               /\ UNCHANGED tokensIssued
          ELSE /\ issueTokens(deleteToken(req.token), req.userId)
               /\ last' = [Reply("refresh", 200) EXCEPT !.token = req.token,
                                                         !.issued = tokensIssued + 1,
                                                         !.access = jwtSign(req.userId, serverTime)]
  /\ inflight' = [inflight EXCEPT ![r] = Idle]
  /\ UNCHANGED <<users, serverTime, habitTables, engineVars, client>>

\* POST /api/auth/logout: deleteMany({ where: { token } }) behind the hook
Logout(cred, token) ==
  /\ IF authenticate(cred, serverTime).status = 401
       THEN /\ last' = [Reply("logout", 401) EXCEPT !.cred = cred, !.token = token]
            /\ UNCHANGED refreshTokens
       ELSE /\ refreshTokens' = deleteManyTokens(token)
            /\ last' = [Reply("logout", 200) EXCEPT !.cred = cred, !.token = token]
  /\ UNCHANGED <<users, tokensIssued, serverTime, inflight>>
  /\ UNCHANGED <<habitTables, engineVars, client>>

\* GET /api/auth/me
Me(cred) ==
  /\ LET auth == authenticate(cred, serverTime)
     IN last' = IF auth.status = 401 THEN [Reply("me", 401) EXCEPT !.cred = cred]
                ELSE IF \E u \in users : u.id = auth.userId
                  THEN [Reply("me", 200) EXCEPT !.cred = cred]
                ELSE [Reply("me", 404) EXCEPT !.cred = cred]
  /\ UNCHANGED <<users, refreshTokens, tokensIssued, serverTime, inflight>>
  /\ UNCHANGED <<habitTables, engineVars, client>>

\* time passes
Tick ==
  /\ serverTime < MaxClock
  /\ serverTime' = serverTime + 1
  /\ UNCHANGED <<users, refreshTokens, tokensIssued, inflight, last>>
  /\ UNCHANGED <<habitTables, engineVars, client>>

\* the engine's variables while the server's routes are exercised
EngineAtRest ==
  /\ habit = HabitRow([frequency |-> "DAILY", customDays |-> {}, targetPerWeek |-> 0,
                       intervalDays |-> 0], 0)
  /\ completions = {}
  /\ now = 0
  /\ analytics = NoAnalytics

\* the bearer tokens a client can send: none, garbage, or one the server has
\* signed for a user (at login, any instant up to now)
Creds == {NoCred, BadCred} \cup {jwtSign(u.id, t) : u \in users, t \in 0..serverTime}

\* Registration runs: an empty database, requests in both slots
InitRegister == EngineAtRest /\ ServerAtRest /\ ClientAtRest

NextRegister ==
  \/ \E r \in Slots, email \in Emails, password \in Passwords : Register(r, email, password)
  \/ \E r \in Slots : RegisterCreate(r)
  \/ \E email \in Emails, password \in Passwords \cup {"wrong"} : Login(email, password)

SpecRegister == InitRegister /\ [][NextRegister]_vars

\* Session runs: both users have registered at instant 0 and hold the token
\* pairs of their registration
SessionsOpen ==
  /\ users = {[id |-> 1, email |-> "test@example.com", password |-> "password123"],
              [id |-> 2, email |-> "other@example.com", password |-> "password123"]}
  /\ refreshTokens = {[token |-> 1, userId |-> 1, expiresAt |-> RefreshTtl],
                      [token |-> 2, userId |-> 2, expiresAt |-> RefreshTtl]}
  /\ tokensIssued = 2

InitSession ==
  /\ EngineAtRest
  /\ ClientAtRest
  /\ SessionsOpen
  /\ serverTime = 0
  /\ habits = {}
  /\ habitCompletions = {}
  /\ inflight = [r \in Slots |-> Idle]
  /\ last = NoReply

\* the bearer tokens sent in the session runs: none, the one the first user
\* got at registration, and one signed for them just now
SessionCreds == {NoCred, jwtSign(1, 0), jwtSign(1, serverTime)}

NextSession ==
  \/ \E email \in Emails, password \in Passwords \cup {"wrong"} : Login(email, password)
  \/ \E r \in Slots, token \in 0..tokensIssued : Refresh(r, token)
  \/ \E r \in Slots : RefreshRedeem(r)
  \/ \E cred \in SessionCreds, token \in 1..tokensIssued : Logout(cred, token)
  \/ Tick

SpecSession == InitSession /\ [][NextSession]_vars

----------------------------------------------------------------------------
(* Habits: apps/api/src/routes/habits.ts (interval-capable variant).         *)
(* Every route runs behind the authenticate hook.  A habit id is the number  *)
(* of the habit's creation; a body field that is absent or null holds 0 or   *)
(* {} as the NULL column does.  A PATCH body field is a pair: whether the    *)
(* field is in the body, and its value.                                      *)

\* the habits that can be created
HabitIds == {1, 2}

Frequencies == {"DAILY", "WEEKLY", "CUSTOM", "INTERVAL"}

\* a response of the hook or of a handler to a request with a bearer token
ReplyTo(route, status, cred) == [Reply(route, status) EXCEPT !.cred = cred]

\* createHabitSchema: the frequency-specific fields of the body
createHabitSchema(body) ==
  /\ body.frequency \in Frequencies
  /\ body.customDays \subseteq 0..6
  /\ body.targetPerWeek = 0 \/ (1 <= body.targetPerWeek /\ body.targetPerWeek <= 7)
  /\ body.intervalDays = 0 \/ (2 <= body.intervalDays /\ body.intervalDays <= 365)

\* "Validate frequency-specific fields" of POST /
missingFrequencyField(body) ==
  \/ body.frequency = "CUSTOM" /\ body.customDays = {}
  \/ body.frequency = "WEEKLY" /\ body.targetPerWeek = 0
  \/ body.frequency = "INTERVAL" /\ body.intervalDays = 0

\* updateHabitSchema: the same fields, each optional and nullable
updateHabitSchema(body) ==
  /\ body.frequency.given => body.frequency.value \in Frequencies
  /\ body.customDays.value \subseteq 0..6
  /\ body.targetPerWeek.value = 0
       \/ (1 <= body.targetPerWeek.value /\ body.targetPerWeek.value <= 7)
  /\ body.intervalDays.value = 0
       \/ (2 <= body.intervalDays.value /\ body.intervalDays.value <= 365)

\* the lookup by id alone
findHabit_anyOwner(id, userId) == {h \in habits : h.id = id}

\* prisma.habit.findFirst({ where: { id, userId } })
findHabit(id, userId) == {h \in habits : h.id = id /\ h.userId = userId}

\* prisma.habit.findMany({ where: { userId, archived: false unless asked } })
findManyHabits_all(userId, includeArchived) == {h \in habits : h.userId = userId}

findManyHabits(userId, includeArchived) ==
  {h \in habits : h.userId = userId /\ (includeArchived \/ ~h.archived)}

\* prisma.habit.update({ where: { id }, data }) with the fields of a PATCH body
updateHabit(row, body) ==
  [row EXCEPT
     !.frequency = IF body.frequency.given THEN body.frequency.value ELSE @,
     !.customDays = IF body.customDays.given THEN body.customDays.value ELSE @,
     !.targetPerWeek = IF body.targetPerWeek.given THEN body.targetPerWeek.value ELSE @,
     !.intervalDays = IF body.intervalDays.given THEN body.intervalDays.value ELSE @,
     !.archived = IF body.archived.given THEN body.archived.value ELSE @]

\* prisma.habit.update({ where: { id }, data: { archived: true } })
archiveHabit_dropRule(row) == [row EXCEPT !.archived = TRUE, !.frequency = "DAILY", !.customDays = {}, !.targetPerWeek = 0, !.intervalDays = 0]

archiveHabit(row) == [row EXCEPT !.archived = TRUE]

\* what the habit routes leave alone
sessionVars == <<users, refreshTokens, tokensIssued, serverTime>>

\* GET /api/habits
ListHabits(cred, includeArchived) ==
  /\ LET auth == authenticate(cred, serverTime)
     IN last' = IF auth.status = 401 THEN ReplyTo("habits.list", 401, cred)
                ELSE [ReplyTo("habits.list", 200, cred) EXCEPT
                        !.includeArchived = includeArchived,
                        !.data = {h.id : h \in findManyHabits(auth.userId, includeArchived)}]
  /\ UNCHANGED <<habits, habitCompletions, inflight, sessionVars, engineVars, client>>

\* GET /api/habits/:id
GetHabit(cred, id) ==
  /\ LET auth == authenticate(cred, serverTime)
     IN last' = IF auth.status = 401 THEN ReplyTo("habits.get", 401, cred)
                ELSE IF findHabit(id, auth.userId) = {}
                  THEN [ReplyTo("habits.get", 404, cred) EXCEPT !.habit = id]
                ELSE [ReplyTo("habits.get", 200, cred) EXCEPT !.habit = id]
  /\ UNCHANGED <<habits, habitCompletions, inflight, sessionVars, engineVars, client>>

\* POST /api/habits
CreateHabit(cred, body) ==
  /\ LET auth == authenticate(cred, serverTime)
         id == Cardinality(habits) + 1
     IN IF auth.status = 401
          THEN last' = ReplyTo("habits.create", 401, cred) /\ UNCHANGED habits
        ELSE IF ~createHabitSchema(body) \/ missingFrequencyField(body)
          THEN last' = ReplyTo("habits.create", 400, cred) /\ UNCHANGED habits
        ELSE /\ id \in HabitIds
             /\ habits' = habits \cup
                  {[id |-> id, userId |-> auth.userId, frequency |-> body.frequency,
                    customDays |-> body.customDays, targetPerWeek |-> body.targetPerWeek,
                    intervalDays |-> body.intervalDays, archived |-> FALSE]}
             /\ last' = [ReplyTo("habits.create", 201, cred) EXCEPT !.habit = id]
  /\ UNCHANGED <<habitCompletions, inflight, sessionVars, engineVars, client>>

\* PATCH /api/habits/:id
PatchHabit(cred, id, body) ==
  /\ LET auth == authenticate(cred, serverTime)
     IN IF auth.status = 401
          THEN last' = ReplyTo("habits.patch", 401, cred) /\ UNCHANGED habits
        ELSE IF ~updateHabitSchema(body)
          THEN last' = [ReplyTo("habits.patch", 400, cred) EXCEPT !.habit = id]
               /\ UNCHANGED habits
        ELSE IF findHabit(id, auth.userId) = {}
          THEN last' = [ReplyTo("habits.patch", 404, cred) EXCEPT !.habit = id]
               /\ UNCHANGED habits
        ELSE /\ habits' = (habits \ findHabit(id, auth.userId))
                            \cup {updateHabit(h, body) : h \in findHabit(id, auth.userId)}
             /\ last' = [ReplyTo("habits.patch", 200, cred) EXCEPT !.habit = id]
  /\ UNCHANGED <<habitCompletions, inflight, sessionVars, engineVars, client>>

\* DELETE /api/habits/:id
DeleteHabit(cred, id) ==
  /\ LET auth == authenticate(cred, serverTime)
     IN IF auth.status = 401
          THEN last' = ReplyTo("habits.delete", 401, cred) /\ UNCHANGED habits
        ELSE IF findHabit(id, auth.userId) = {}
          THEN last' = [ReplyTo("habits.delete", 404, cred) EXCEPT !.habit = id]
               /\ UNCHANGED habits
        ELSE /\ habits' = (habits \ findHabit(id, auth.userId))
                            \cup {archiveHabit(h) : h \in findHabit(id, auth.userId)}
             /\ last' = [ReplyTo("habits.delete", 200, cred) EXCEPT !.habit = id]
  /\ UNCHANGED <<habitCompletions, inflight, sessionVars, engineVars, client>>

----------------------------------------------------------------------------
(* Completions: apps/api/src/routes/completions.ts.  A date of a body or of  *)
(* a path is a day number, as in the engine.  A row id (a cuid in the        *)
(* source) is a number that no stored row and no request in progress holds.  *)
(* The handlers are cut between the lookup of the existing row and the       *)
(* write that depends on it.                                                 *)

\* the dates the requests name
Dates == {1, 2}

\* prisma.habitCompletion.findUnique({ where: { habitId_completedAt } })
findCompletion(habitId, date) ==
  {c \in habitCompletions : c.habitId = habitId /\ c.completedAt = date}

\* the id of a new row
newCompletionId ==
  LET used == {c.id : c \in habitCompletions}
                \cup {inflight[r].existing : r \in {q \in Slots : inflight[q].route \in {"toggle", "remove"}}}
  IN SetMin({n \in 1..(Cardinality(used) + 1) : n \notin used})

\* the unique index on (habitId, completedAt) decides habitCompletion.create
uniqueCompletion_noIndex(habitId, date) == TRUE

uniqueCompletion(habitId, date) == findCompletion(habitId, date) = {}

\* prisma.habitCompletion.create
createCompletion(habitId, date) ==
  habitCompletions \cup {[id |-> newCompletionId, habitId |-> habitId, completedAt |-> date]}

\* the delete taking every completion of the habit of the row
deleteCompletion_wholeHabit(id) ==
  {c \in habitCompletions : \A x \in habitCompletions : x.id = id => c.habitId # x.habitId}

\* prisma.habitCompletion.delete({ where: { id } })
deleteCompletion(id) == {c \in habitCompletions : c.id # id}

\* createCompletionSchema.parse(request.body): the date of a body is a day
\* number, or 0 for a string that is no YYYY-MM-DD
createCompletionSchema(date) == date # 0

ReplyAbout(route, status, cred, habitId, date) ==
  [ReplyTo(route, status, cred) EXCEPT !.habit = habitId, !.date = date]

\* GET /api/habits/:id/completions
ListCompletions(cred, id) ==
  /\ LET auth == authenticate(cred, serverTime)
     IN last' = IF auth.status = 401 THEN ReplyTo("completions.list", 401, cred)
                ELSE IF findHabit(id, auth.userId) = {}
                  THEN [ReplyTo("completions.list", 404, cred) EXCEPT !.habit = id]
                ELSE [ReplyTo("completions.list", 200, cred) EXCEPT
                        !.habit = id,
                        !.data = {c.completedAt : c \in {x \in habitCompletions : x.habitId = id}}]
  /\ UNCHANGED <<habits, habitCompletions, inflight, sessionVars, engineVars, client>>

\* POST /api/habits/:id/complete up to the lookup of the existing row
Complete(r, cred, id, date) ==
  /\ freeSlot(r)
  /\ LET auth == authenticate(cred, serverTime)
     IN IF auth.status = 401
          THEN last' = ReplyTo("complete", 401, cred) /\ UNCHANGED inflight
        ELSE IF ~createCompletionSchema(date)
          THEN last' = ReplyAbout("complete", 400, cred, id, date) /\ UNCHANGED inflight
        ELSE IF findHabit(id, auth.userId) = {}
          THEN last' = ReplyAbout("complete", 404, cred, id, date) /\ UNCHANGED inflight
        ELSE IF findCompletion(id, date) # {}
          THEN last' = ReplyAbout("complete", 400, cred, id, date) /\ UNCHANGED inflight
        ELSE /\ inflight' = [inflight EXCEPT ![r] =
                   [route |-> "complete", cred |-> cred, habit |-> id, date |-> date]]
             /\ UNCHANGED last
  /\ UNCHANGED <<habits, habitCompletions, sessionVars, engineVars, client>>

\* POST /api/habits/:id/complete from habitCompletion.create on: a unique
\* violation is rethrown and the request ends with 500
CompleteCreate(r) ==
  /\ inflight[r].route = "complete"
  /\ LET req == inflight[r]
     IN IF uniqueCompletion(req.habit, req.date)
          THEN /\ habitCompletions' = createCompletion(req.habit, req.date)
               /\ last' = ReplyAbout("complete", 201, req.cred, req.habit, req.date)
          ELSE /\ last' = ReplyAbout("complete", 500, req.cred, req.habit, req.date)
               /\ UNCHANGED habitCompletions
  /\ inflight' = [inflight EXCEPT ![r] = Idle]
  /\ UNCHANGED <<habits, sessionVars, engineVars, client>>

\* DELETE /api/habits/:id/complete/:date up to the lookup of the row
RemoveCompletion(r, cred, id, date) ==
  /\ freeSlot(r)
  /\ LET auth == authenticate(cred, serverTime)
     IN IF auth.status = 401
          THEN last' = ReplyTo("remove", 401, cred) /\ UNCHANGED inflight
        ELSE IF findHabit(id, auth.userId) = {} \/ findCompletion(id, date) = {}
          THEN last' = ReplyAbout("remove", 404, cred, id, date) /\ UNCHANGED inflight
        ELSE /\ inflight' = [inflight EXCEPT ![r] =
                   [route |-> "remove", cred |-> cred, habit |-> id, date |-> date,
                    existing |-> (CHOOSE c \in findCompletion(id, date) : TRUE).id]]
             /\ UNCHANGED last
  /\ UNCHANGED <<habits, habitCompletions, sessionVars, engineVars, client>>

\* DELETE /api/habits/:id/complete/:date from habitCompletion.delete on:
\* deleting a row that is gone throws and the request ends with 500
RemoveDelete(r) ==
  /\ inflight[r].route = "remove"
  /\ LET req == inflight[r]
     IN IF \E c \in habitCompletions : c.id = req.existing
          THEN /\ habitCompletions' = deleteCompletion(req.existing)
               /\ last' = ReplyAbout("remove", 200, req.cred, req.habit, req.date)
          ELSE /\ last' = ReplyAbout("remove", 500, req.cred, req.habit, req.date)
               /\ UNCHANGED habitCompletions
  /\ inflight' = [inflight EXCEPT ![r] = Idle]
  /\ UNCHANGED <<habits, sessionVars, engineVars, client>>

\* POST /api/habits/:id/toggle up to the lookup of the existing row; existing
\* is the id of the row, 0 when there is none
Toggle(r, cred, id, date) ==
  /\ freeSlot(r)
  /\ LET auth == authenticate(cred, serverTime)
     IN IF auth.status = 401
          THEN last' = ReplyTo("toggle", 401, cred) /\ UNCHANGED inflight
        ELSE IF ~createCompletionSchema(date)
          THEN last' = ReplyAbout("toggle", 400, cred, id, date) /\ UNCHANGED inflight
        ELSE IF findHabit(id, auth.userId) = {}
          THEN last' = ReplyAbout("toggle", 404, cred, id, date) /\ UNCHANGED inflight
        ELSE /\ inflight' = [inflight EXCEPT ![r] =
                   [route |-> "toggle", cred |-> cred, habit |-> id, date |-> date,
                    existing |-> IF findCompletion(id, date) = {} THEN 0
                                 ELSE (CHOOSE c \in findCompletion(id, date) : TRUE).id]]
             /\ UNCHANGED last
  /\ UNCHANGED <<habits, habitCompletions, sessionVars, engineVars, client>>

\* POST /api/habits/:id/toggle from the write on: the row that was found is
\* deleted (200, completed: false), or a row is created (201, completed: true)
ToggleWrite(r) ==
  /\ inflight[r].route = "toggle"
  /\ LET req == inflight[r]
     IN IF req.existing # 0
          THEN IF \E c \in habitCompletions : c.id = req.existing
                 THEN /\ habitCompletions' = deleteCompletion(req.existing)
                      /\ last' = [ReplyAbout("toggle", 200, req.cred, req.habit, req.date)
                                    EXCEPT !.data = {[completed |-> FALSE]}]
                 ELSE /\ last' = ReplyAbout("toggle", 500, req.cred, req.habit, req.date)
                      /\ UNCHANGED habitCompletions
        ELSE IF uniqueCompletion(req.habit, req.date)
          THEN /\ habitCompletions' = createCompletion(req.habit, req.date)
               /\ last' = [ReplyAbout("toggle", 201, req.cred, req.habit, req.date)
                             EXCEPT !.data = {[completed |-> TRUE]}]
        ELSE /\ last' = ReplyAbout("toggle", 500, req.cred, req.habit, req.date)
             /\ UNCHANGED habitCompletions
  /\ inflight' = [inflight EXCEPT ![r] = Idle]
  /\ UNCHANGED <<habits, sessionVars, engineVars, client>>

----------------------------------------------------------------------------
(* Analytics routes: the habits and completions a request reads.  The        *)
(* statistics GET /api/analytics/habit/:id computes from the habit it finds  *)
(* are those of GetHabitAnalytics.                                           *)

\* the habits findMany returns for the overview and the calendar, whoever
\* owns them and archived ones too
activeHabits_all(userId) == habits

\* the habits findMany returns for the overview and the calendar
activeHabits(userId) == {h \in habits : h.userId = userId /\ ~h.archived}

\* calendarMap: per date with a completion in [from, to], the count and the
\* list of the habits completed on it.  Each completion row adds one to the
\* count and pushes its habit on the list; the list is kept as the number of
\* entries per habit, its order being the order of the rows.
calendarData(userId, from, to) ==
  LET rows == {c \in habitCompletions :
                 /\ c.habitId \in {h.id : h \in activeHabits(userId)}
                 /\ from <= c.completedAt /\ c.completedAt <= to}
  IN {[date |-> d, count |-> Cardinality({c \in rows : c.completedAt = d}),
       habits |-> [id \in {c.habitId : c \in {x \in rows : x.completedAt = d}} |->
                     Cardinality({c \in rows : c.completedAt = d /\ c.habitId = id})]] :
        d \in {c.completedAt : c \in rows}}

\* GET /api/analytics/overview
Overview(cred) ==
  /\ LET auth == authenticate(cred, serverTime)
     IN last' = IF auth.status = 401 THEN ReplyTo("analytics.overview", 401, cred)
                ELSE [ReplyTo("analytics.overview", 200, cred) EXCEPT
                        !.data = {h.id : h \in activeHabits(auth.userId)}]
  /\ UNCHANGED <<habits, habitCompletions, inflight, sessionVars, engineVars, client>>

\* GET /api/analytics/calendar?from=&to=
Calendar(cred, from, to) ==
  /\ LET auth == authenticate(cred, serverTime)
     IN last' = IF auth.status = 401 THEN ReplyTo("analytics.calendar", 401, cred)
                ELSE [ReplyTo("analytics.calendar", 200, cred) EXCEPT
                        !.from = from, !.to = to,
                        !.data = calendarData(auth.userId, from, to)]
  /\ UNCHANGED <<habits, habitCompletions, inflight, sessionVars, engineVars, client>>

\* GET /api/analytics/habit/:id
HabitAnalytics(cred, id) ==
  /\ LET auth == authenticate(cred, serverTime)
     IN last' = IF auth.status = 401 THEN ReplyTo("analytics.habit", 401, cred)
                ELSE IF findHabit(id, auth.userId) = {}
                  THEN [ReplyTo("analytics.habit", 404, cred) EXCEPT !.habit = id]
                ELSE [ReplyTo("analytics.habit", 200, cred) EXCEPT !.habit = id]
  /\ UNCHANGED <<habits, habitCompletions, inflight, sessionVars, engineVars, client>>

----------------------------------------------------------------------------
(* Specifications of the protected routes.  They start one tick after both   *)
(* users registered: the access tokens of the registrations have expired.    *)

\* a stored habit without parameters, and the first user's first habit
DailyHabit(id, userId) ==
  [id |-> id, userId |-> userId, frequency |-> "DAILY", customDays |-> {},
   targetPerWeek |-> 0, intervalDays |-> 0, archived |-> FALSE]

\* the bearer token the first user got at a login just now
UserCred == jwtSign(1, serverTime)

\* POST bodies: every kind with and without its parameter, and a target
\* that the schema rejects
NoRule == [frequency |-> "DAILY", customDays |-> {}, targetPerWeek |-> 0, intervalDays |-> 0]

CreateBodies ==
  {[NoRule EXCEPT !.frequency = f] : f \in Frequencies}
  \cup {[NoRule EXCEPT !.frequency = "WEEKLY", !.targetPerWeek = t] : t \in {3, 8}}
  \cup {[NoRule EXCEPT !.frequency = "CUSTOM", !.customDays = {1, 3}],
         [NoRule EXCEPT !.frequency = "INTERVAL", !.intervalDays = 2]}

NoPatch ==
  [frequency |-> [given |-> FALSE, value |-> ""], customDays |-> [given |-> FALSE, value |-> {}],
   targetPerWeek |-> [given |-> FALSE, value |-> 0],
   intervalDays |-> [given |-> FALSE, value |-> 0],
   archived |-> [given |-> FALSE, value |-> FALSE]]

\* PATCH bodies with one field: a frequency, a parameter or null, archived
PatchBodies ==
  {[NoPatch EXCEPT !.frequency = [given |-> TRUE, value |-> f]] : f \in Frequencies}
  \cup {[NoPatch EXCEPT !.customDays = [given |-> TRUE, value |-> v]] : v \in {{}, {1, 3}, {7}}}
  \cup {[NoPatch EXCEPT !.targetPerWeek = [given |-> TRUE, value |-> v]] : v \in {0, 3}}
  \cup {[NoPatch EXCEPT !.intervalDays = [given |-> TRUE, value |-> v]] : v \in {0, 2}}
  \cup {[NoPatch EXCEPT !.archived = [given |-> TRUE, value |-> v]] : v \in BOOLEAN}

\* Habit runs: the first user has a habit completed on both dates, and goes
\* on to create, edit, archive and list habits
InitHabits ==
  /\ EngineAtRest
  /\ ClientAtRest
  /\ SessionsOpen
  /\ serverTime = 1
  /\ habits = {DailyHabit(1, 1)}
  /\ habitCompletions = {[id |-> d, habitId |-> 1, completedAt |-> d] : d \in Dates}
  /\ inflight = [r \in Slots |-> Idle]
  /\ last = NoReply

NextHabits ==
  \/ \E body \in CreateBodies : CreateHabit(UserCred, body)
  \/ \E id \in HabitIds, body \in PatchBodies : PatchHabit(UserCred, id, body)
  \/ \E id \in HabitIds : DeleteHabit(UserCred, id)
  \/ \E includeArchived \in BOOLEAN : ListHabits(UserCred, includeArchived)
  \/ Overview(UserCred)
  \/ \E from \in Dates, to \in Dates : Calendar(UserCred, from, to)

SpecHabits == InitHabits /\ [][NextHabits]_vars

\* Completion runs: the first user has two habits, the second one completed
\* on the first date; requests for the first habit arrive in both slots
InitCompletions ==
  /\ EngineAtRest
  /\ ClientAtRest
  /\ SessionsOpen
  /\ serverTime = 1
  /\ habits = {DailyHabit(1, 1), DailyHabit(2, 1)}
  /\ habitCompletions = {[id |-> 1, habitId |-> 2, completedAt |-> 1]}
  /\ inflight = [r \in Slots |-> Idle]
  /\ last = NoReply

NextCompletions ==
  \/ \E r \in Slots, date \in Dates : Complete(r, UserCred, 1, date)
  \/ \E r \in Slots : CompleteCreate(r)
  \/ \E r \in Slots, date \in Dates : RemoveCompletion(r, UserCred, 1, date)
  \/ \E r \in Slots : RemoveDelete(r)
  \/ \E r \in Slots, date \in Dates : Toggle(r, UserCred, 1, date)
  \/ \E r \in Slots : ToggleWrite(r)

SpecCompletions == InitCompletions /\ [][NextCompletions]_vars

\* Runs of all routes behind the hook: each user has a habit completed on
\* the first date; requests arrive with every kind of bearer token
InitApi ==
  /\ EngineAtRest
  /\ ClientAtRest
  /\ SessionsOpen
  /\ serverTime = 1
  /\ habits = {DailyHabit(1, 1), DailyHabit(2, 2)}
  /\ habitCompletions = {[id |-> h, habitId |-> h, completedAt |-> 1] : h \in HabitIds}
  /\ inflight = [r \in Slots |-> Idle]
  /\ last = NoReply

\* the PATCH bodies of the runs over all routes: one that restores an
\* archived habit, and one that updateHabitSchema rejects
ApiPatchBodies ==
  {[NoPatch EXCEPT !.archived = [given |-> TRUE, value |-> FALSE]],
   [NoPatch EXCEPT !.customDays = [given |-> TRUE, value |-> {7}]]}

NextApi ==
  \/ \E cred \in Creds : Me(cred)
  \/ \E cred \in Creds : Logout(cred, 1)
  \/ \E cred \in Creds, includeArchived \in BOOLEAN : ListHabits(cred, includeArchived)
  \/ \E cred \in Creds, id \in HabitIds : GetHabit(cred, id)
  \/ \E cred \in Creds : CreateHabit(cred, NoRule)
  \/ \E cred \in Creds, id \in HabitIds, body \in ApiPatchBodies : PatchHabit(cred, id, body)
  \/ \E cred \in Creds, id \in HabitIds : DeleteHabit(cred, id)
  \/ \E cred \in Creds, id \in HabitIds : ListCompletions(cred, id)
  \/ \E cred \in Creds, id \in HabitIds, date \in {0, 1} : Complete(1, cred, id, date)
  \/ CompleteCreate(1)
  \/ \E cred \in Creds, id \in HabitIds : RemoveCompletion(1, cred, id, 1)
  \/ RemoveDelete(1)
  \/ \E cred \in Creds, id \in HabitIds, date \in {0, 1} : Toggle(1, cred, id, date)
  \/ ToggleWrite(1)
  \/ \E cred \in Creds : Overview(cred)
  \/ \E cred \in Creds : Calendar(cred, 1, 2)
  \/ \E cred \in Creds, id \in HabitIds : HabitAnalytics(cred, id)

SpecApi == InitApi /\ [][NextApi]_vars

\* Calendar runs: the first user owns the habits 1 and 2, the second user the
\* habit 3; habit 2 is completed on the first date and habit 3 on both; the
\* first user toggles completions of habit 1, the owners archive, and both
\* users read the calendar
InitCalendar ==
  /\ EngineAtRest
  /\ ClientAtRest
  /\ SessionsOpen
  /\ serverTime = 1
  /\ habits = {DailyHabit(1, 1), DailyHabit(2, 1), DailyHabit(3, 2)}
  /\ habitCompletions = {[id |-> 1, habitId |-> 2, completedAt |-> 1],
                         [id |-> 2, habitId |-> 3, completedAt |-> 1],
                         [id |-> 3, habitId |-> 3, completedAt |-> 2]}
  /\ inflight = [r \in Slots |-> Idle]
  /\ last = NoReply

NextCalendar ==
  \/ \E date \in Dates : Toggle(1, jwtSign(1, serverTime), 1, date)
  \/ ToggleWrite(1)
  \/ \E h \in habits : DeleteHabit(jwtSign(h.userId, serverTime), h.id)
  \/ \E u \in users, from \in Dates, to \in Dates :
       Calendar(jwtSign(u.id, serverTime), from, to)

SpecCalendar == InitCalendar /\ [][NextCalendar]_vars

----------------------------------------------------------------------------
(* The web client: apps/web/src/api/client.ts.  Its tokens live in two       *)
(* module variables and in localStorage.  A call of api() runs until it      *)
(* awaits: the fetch of its endpoint, the fetch of /auth/refresh (which the  *)
(* server handles in its two steps), the body of the refresh response, the   *)
(* fetch of the retry.  What the server does for a fetch and what the call   *)
(* does with the response up to its next await are one step.                 *)

\* setTokens(access, refresh)
setTokens(cl, access, refresh) ==
  [cl EXCEPT !.accessToken = access, !.refreshToken = refresh,
             !.localStorage = [accessToken |-> access, refreshToken |-> refresh]]

\* getTokens(): the module variables, loaded from localStorage first when
\* accessToken is null
getTokens(cl) ==
  IF cl.accessToken = NoCred
    THEN [cl EXCEPT !.accessToken = cl.localStorage.accessToken,
                    !.refreshToken = cl.localStorage.refreshToken]
    ELSE cl

\* clearTokens()
clearTokens(cl) ==
  [cl EXCEPT !.accessToken = NoCred, !.refreshToken = 0,
             !.localStorage = [accessToken |-> NoCred, refreshToken |-> 0]]

\* the status of a protected endpoint for a bearer token
endpointStatus(at) == IF authenticate(at, serverTime).status = 401 THEN 401 ELSE 200

serverTables == <<users, serverTime, habits, habitCompletions, inflight, last>>

\* api(): getTokens(), then the fetch of the endpoint
ApiCall(c) ==
  /\ client.calls[c].pc = "idle"
  /\ LET cl == getTokens(client)
     IN client' = [cl EXCEPT !.calls[c].pc = "fetching", !.calls[c].at = cl.accessToken]
  /\ UNCHANGED <<refreshTokens, tokensIssued, serverTables, engineVars>>

\* the response of the endpoint: on 401 with a refresh token in memory the
\* call enters refreshAccessToken(), which reads the refresh token and
\* fetches /auth/refresh; otherwise the call returns the response
ApiFetched(c) ==
  /\ client.calls[c].pc = "fetching"
  /\ LET status == endpointStatus(client.calls[c].at)
         cl == getTokens(client)
     IN client' =
          IF status = 401 /\ client.refreshToken # 0
            THEN IF cl.refreshToken = 0
                   THEN [cl EXCEPT !.calls[c].pc = "done", !.calls[c].status = status]
                   ELSE [cl EXCEPT !.calls[c].pc = "refreshing",
                                   !.calls[c].status = status,
                                   !.calls[c].rt = cl.refreshToken,
                                   !.calls[c].refreshes = @ + 1]
            ELSE [client EXCEPT !.calls[c].pc = "done", !.calls[c].status = status]
  /\ UNCHANGED <<refreshTokens, tokensIssued, serverTables, engineVars>>

\* POST /api/auth/refresh for the call, up to the lookup: a token that is not
\* stored is answered 401, and refreshAccessToken() clears the tokens; of a
\* stored one the handler notes whether it has expired
RefreshLookup(c) ==
  /\ client.calls[c].pc = "refreshing"
  /\ client' =
       IF storedToken(client.calls[c].rt) = {}
         THEN [clearTokens(client) EXCEPT !.calls[c].pc = "done"]
         ELSE [client EXCEPT
                !.calls[c].pc = "redeeming",
                !.calls[c].expired =
                  \E row \in storedToken(client.calls[c].rt) : row.expiresAt < serverTime]
  /\ UNCHANGED <<refreshTokens, tokensIssued, serverTables, engineVars>>

\* POST /api/auth/refresh for the call, from the delete on: 500 when the row
\* is gone, 401 when it has expired, and refreshAccessToken() clears the
\* tokens; otherwise 200 with a new pair, whose body the call awaits
RefreshAnswered(c) ==
  /\ client.calls[c].pc = "redeeming"
  /\ LET rt == client.calls[c].rt
     IN IF storedToken(rt) = {}
          THEN /\ client' = [clearTokens(client) EXCEPT !.calls[c].pc = "done"]
               /\ UNCHANGED <<refreshTokens, tokensIssued>>
        ELSE IF client.calls[c].expired
          THEN /\ refreshTokens' = deleteToken(rt)
               /\ client' = [clearTokens(client) EXCEPT !.calls[c].pc = "done"]
               /\ UNCHANGED tokensIssued
        ELSE /\ \E row \in storedToken(rt) :
                  /\ issueTokens(deleteToken(rt), row.userId)
                  /\ client' = [client EXCEPT
                       !.calls[c].pc = "parsing",
                       !.calls[c].pair = [accessToken |-> jwtSign(row.userId, serverTime),
                                          refreshToken |-> tokensIssued + 1]]
  /\ UNCHANGED <<serverTables, engineVars>>

\* the body of the 200: setTokens(), refreshAccessToken() returns true, and
\* api() reads the new access token and fetches the endpoint again
RefreshParsed(c) ==
  /\ client.calls[c].pc = "parsing"
  /\ LET pair == client.calls[c].pair
         cl == getTokens(setTokens(client, pair.accessToken, pair.refreshToken))
     IN client' = [cl EXCEPT !.calls[c].pc = "retrying", !.calls[c].at = cl.accessToken,
                             !.calls[c].retries = @ + 1]
  /\ UNCHANGED <<refreshTokens, tokensIssued, serverTables, engineVars>>

\* the response of the retry, which the call returns
RetryFetched(c) ==
  /\ client.calls[c].pc = "retrying"
  /\ client' = [client EXCEPT !.calls[c].pc = "done",
                              !.calls[c].status = endpointStatus(client.calls[c].at)]
  /\ UNCHANGED <<refreshTokens, tokensIssued, serverTables, engineVars>>

\* Client runs: the user is logged in with a refresh token the server stores
\* and an access token that has expired; the calls of api() begin and run in
\* any order
InitClient ==
  /\ EngineAtRest
  /\ users = {[id |-> 1, email |-> "test@example.com", password |-> "password123"]}
  /\ refreshTokens = {[token |-> 1, userId |-> 1, expiresAt |-> RefreshTtl]}
  /\ tokensIssued = 1
  /\ serverTime = 1
  /\ habits = {}
  /\ habitCompletions = {}
  /\ inflight = [r \in Slots |-> Idle]
  /\ last = NoReply
  /\ client = setTokens([accessToken |-> NoCred, refreshToken |-> 0,
                         localStorage |-> [accessToken |-> NoCred, refreshToken |-> 0],
                         calls |-> [c \in Calls |-> NoCall]],
                        jwtSign(1, 0), 1)

NextClient ==
  \/ \E c \in Calls : ApiCall(c)
  \/ \E c \in Calls : ApiFetched(c)
  \/ \E c \in Calls : RefreshLookup(c)
  \/ \E c \in Calls : RefreshAnswered(c)
  \/ \E c \in Calls : RefreshParsed(c)
  \/ \E c \in Calls : RetryFetched(c)
  \/ Tick

SpecClient == InitClient /\ [][NextClient]_vars

----------------------------------------------------------------------------
(* Notions the properties are stated with, independent of the engine's code *)

\* the habit is a well-formed Interval(N) rule
ValidInterval == habit.frequency = "INTERVAL" /\ habit.intervalDays >= 2

\* the habit is a Daily, Weekly or CustomDays rule
DayRule == habit.frequency \in {"DAILY", "WEEKLY", "CUSTOM"}

\* the continuity tolerance of the habit's rule, in days
Tolerance == IF ValidInterval THEN habit.intervalDays ELSE 1

\* the completed dates from lo to hi form one segment: each of them but the
\* newest has a later one at most T days after it
IsRun(lo, hi, T) ==
  /\ lo \in completions /\ hi \in completions /\ lo <= hi
  /\ \A d \in completions : (lo <= d /\ d < hi) =>
        \E e \in completions : d < e /\ e <= hi /\ e - d <= T

\* the length of the longest segment
LongestRun(T) ==
  IF completions = {} THEN 0
  ELSE SetMax({Cardinality({d \in completions : p[1] <= d /\ d <= p[2]}) :
                 p \in {q \in completions \X completions : IsRun(q[1], q[2], T)}})

\* the length of the segment that ends with the date hi
RunEndingAt(hi, T) ==
  LET lo == SetMin({l \in completions : IsRun(l, hi, T)})
  IN Cardinality({d \in completions : lo <= d /\ d <= hi})

\* the number of consecutive calendar dates completed, counting back from m
ConsecutiveBack(m) ==
  CHOOSE k \in 1..Cardinality(completions) :
    /\ \A j \in 0..(k - 1) : (m - j) \in completions
    /\ (m - k) \notin completions

\* daysSinceCreation and the expected count of the habit at the clock's instant
Days == daysSinceCreation(habit.createdAt, now)

ExpectedCount ==
  IF Days <= 0 THEN 0
  ELSE expectedCompletions(habit.createdAt, habit.frequency, habit.customDays,
                           habit.targetPerWeek, habit.intervalDays, Days)

\* the engine's results for an arbitrary completion array and the stored habit
StreakOf(cs) ==
  calculateStreak(cs, habit.frequency, habit.customDays, habit.intervalDays, now)

RateOf(cs) ==
  calculateCompletionRate(cs, habit.createdAt, habit.frequency, habit.customDays,
                          habit.targetPerWeek, habit.intervalDays, now)

\* the array s with the instant t put in after its first k elements
InsertAt(s, k, t) == SubSeq(s, 1, k) \o <<t>> \o SubSeq(s, k + 1, Len(s))

\* the instants whose civil date is already completed
RepeatTicks ==
  {t \in (SetMin(completions \cup {0}) * TicksPerDay)..
         (SetMax(completions \cup {0}) * TicksPerDay + TicksPerDay - 1) :
     isoDate(t) \in completions}

----------------------------------------------------------------------------
(* Properties *)

\* C1: for every rule kind, completion set and today, the streak result has
\* longest >= current.
C1_LongestAtLeastCurrent ==
  analytics.done => analytics.longestStreak >= analytics.currentStreak

C1_Witness ==
  /\ analytics.done
  /\ analytics.currentStreak >= 2
  /\ analytics.longestStreak > analytics.currentStreak

\* C2: for Daily, Weekly and CustomDays, current is the number of consecutive
\* calendar dates completed counting back from the most recent completion
\* when that one is today or yesterday, and 0 when it is older than
\* yesterday; {D, D-1, D-2} gives 3 and {D, D-2} gives 1.
C2_CurrentIsBackwardWalk ==
  (analytics.done /\ DayRule /\ completions # {}) =>
    LET m == SetMax(completions)
    IN /\ m \in {today, today - 1} => analytics.currentStreak = ConsecutiveBack(m)
       /\ m < today - 1 => analytics.currentStreak = 0
       /\ completions = {today, today - 1, today - 2} => analytics.currentStreak = 3
       /\ completions = {today, today - 2} => analytics.currentStreak = 1

C2_Witness ==
  /\ analytics.done /\ DayRule
  /\ SetMax(completions \cup {0}) = today - 1
  /\ {today - 1, today - 2, today - 4} \subseteq completions
  /\ (today - 3) \notin completions
  /\ analytics.currentStreak = 2

\* C3: longest is the length of the longest run of the date-sorted completion
\* dates whose neighbours are at most T days apart, T = 1 for Daily, Weekly
\* and CustomDays and T = N for Interval(N); one completion gives 1, and
\* {D, D-3, D-6} under Interval(3) gives 3.
C3_LongestIsLongestRun ==
  (analytics.done /\ (DayRule \/ ValidInterval)) =>
    /\ completions # {} => analytics.longestStreak = LongestRun(Tolerance)
    /\ Cardinality(completions) = 1 => analytics.longestStreak = 1
    /\ (ValidInterval /\ habit.intervalDays = 3
        /\ completions = {today, today - 3, today - 6})
         => analytics.longestStreak = 3

C3_Witness ==
  /\ analytics.done /\ ValidInterval /\ habit.intervalDays = 3
  /\ completions = {today, today - 3, today - 6}
  /\ analytics.longestStreak = 3

\* C4 (as claimed): for Interval(N), when the streak is active, current is the
\* length of the segment that contains the most recent completion.
C4_CurrentIsInProgressSegment ==
  (analytics.done /\ ValidInterval /\ completions # {}
   /\ today - SetMax(completions) <= habit.intervalDays)
    => analytics.currentStreak = RunEndingAt(SetMax(completions), habit.intervalDays)

\* C5: for Interval(N) the streak is active exactly when today minus the most
\* recent completion date is at most N days; when it is not active, current
\* is 0 whatever longest is.
C5_IntervalActiveWithinN ==
  (analytics.done /\ ValidInterval /\ completions # {}) =>
    (analytics.currentStreak > 0 <=>
       today - SetMax(completions) <= habit.intervalDays)

C5_Witness ==
  /\ analytics.done /\ ValidInterval /\ habit.intervalDays = 3
  /\ SetMax(completions \cup {0}) = today - 5
  /\ analytics.currentStreak = 0
  /\ analytics.longestStreak > 0

\* C6: with no completion, current = 0, longest = 0 and rate = 0 for every
\* rule kind, creation date and today; with exactly one completion, dated
\* today, current = 1 and longest = 1 for every rule kind.
C6_EmptyAndSingleToday ==
  analytics.done =>
    /\ completions = {} =>
         /\ analytics.currentStreak = 0
         /\ analytics.longestStreak = 0
         /\ analytics.completionRate = 0
    /\ completions = {today} =>
         /\ analytics.currentStreak = 1
         /\ analytics.longestStreak = 1

C6_Witness ==
  /\ analytics.done
  /\ completions = {today}
  /\ ValidInterval
  /\ habit.createdAt > now
  /\ analytics.currentStreak = 1

\* C7: the streak result is unchanged when a completion is added whose date
\* is already in the completion set, wherever it lands in the array and
\* whatever its time of day, for every rule kind.
C7_RepeatKeepsStreak ==
  analytics.done =>
    \A t \in RepeatTicks : \A k \in 0..Len(completionDates) :
      StreakOf(InsertAt(completionDates, k, t))
        = [current |-> analytics.currentStreak, longest |-> analytics.longestStreak]

C7_Witness ==
  /\ analytics.done
  /\ Cardinality(completions) >= 3
  /\ analytics.currentStreak >= 2
  /\ StreakOf(Append(completionDates, Head(completionDates))).current
       = analytics.currentStreak

\* C8 (as claimed): adding a completion whose date is already in the set does
\* not change the completion rate.
C8_RepeatKeepsRate ==
  \A t \in RepeatTicks :
    RateOf(Append(completionDates, t)) = RateOf(completionDates)

\* C9: the completion rate is an integer from 0 to 100 for every rule kind,
\* completion collection, creation date and today; it is 0 when the habit was
\* created later than today and whenever the expected count is 0.
C9_RateWithinPercent ==
  analytics.done =>
    /\ analytics.completionRate \in 0..100
    /\ isoDate(habit.createdAt) > today => analytics.completionRate = 0
    /\ ExpectedCount = 0 => analytics.completionRate = 0

C9_Witness ==
  /\ analytics.done
  /\ ExpectedCount > 0
  /\ Cardinality(completions) > ExpectedCount
  /\ analytics.completionRate = 100

\* C10 (as claimed): Weekly with target 3, created 14 days ago, 5 completions:
\* the expected count is 6 and the rate is 83.
C10_CreatedFourteenDaysAgo ==
  (analytics.done /\ habit.frequency = "WEEKLY" /\ habit.targetPerWeek = 3
   /\ today - isoDate(habit.createdAt) = 14 /\ Cardinality(completions) = 5)
    => (ExpectedCount = 6 /\ analytics.completionRate = 83)

\* C10 (amended): Weekly with target 3 and 5 completions, when 13 full days
\* but not yet 14 lie between the creation instant and now (so that
\* daysSinceCreation is 14): the expected count is 6 and the rate is 83.
C10_ThirteenFullDays ==
  (analytics.done /\ habit.frequency = "WEEKLY" /\ habit.targetPerWeek = 3
   /\ 13 * TicksPerDay <= now - habit.createdAt
   /\ now - habit.createdAt < 14 * TicksPerDay
   /\ Cardinality(completions) = 5)
    => (ExpectedCount = 6 /\ analytics.completionRate = 83)

C10_Witness ==
  /\ analytics.done /\ habit.frequency = "WEEKLY" /\ habit.targetPerWeek = 3
  /\ now - habit.createdAt = 13 * TicksPerDay + 1
  /\ Cardinality(completions) = 5
  /\ analytics.completionRate = 83

\* the habit's creation date, the calendar dates from it to today, a date's
\* weekday, and the due dates of an Interval(N) habit up to today
creationDate == isoDate(habit.createdAt)

CalendarRange == creationDate..today

weekdayOf(d) == getDay(parseDate(d))

DueDates == {d \in CalendarRange : (d - creationDate) % habit.intervalDays = 0}

\* C11: for CustomDays(days) the expected count is the number of calendar
\* days d with creationDate <= d <= today whose weekday is in days, and for
\* Daily it is the number of calendar days in that range.
C11_ExpectedCountsCalendarDays ==
  habit.createdAt <= now =>
    /\ (habit.frequency = "CUSTOM" /\ habit.customDays # {}) =>
         ExpectedCount =
           Cardinality({d \in CalendarRange : weekdayOf(d) \in habit.customDays})
    /\ habit.frequency = "DAILY" => ExpectedCount = Cardinality(CalendarRange)

\* C12: for Interval(N) the expected count is the number of due dates
\* creationDate + k*N (k >= 0) that are not later than today.
C12_ExpectedCountsDueDates ==
  (habit.createdAt <= now /\ ValidInterval) =>
    ExpectedCount = Cardinality(DueDates)

----------------------------------------------------------------------------
(* Sessions: notions and properties *)

\* the bearer token is a JWT of this server that has not expired
ValidAccess(cred) == cred.kind = "jwt" /\ serverTime < cred.exp

\* the refresh token is a row of the given store
TokenIn(store, token) == \E row \in store : row.token = token

\* this step ends the request of slot r, resp. answers a request at once
Finishes(r) == inflight[r] # Idle /\ inflight'[r] = Idle

AnswersAtOnce(route) == last' # last /\ last'.route = route /\ inflight' = inflight

\* this step issues no token pair
NoTokensIssued ==
  /\ last'.issued = 0 /\ last'.access = NoCred
  /\ tokensIssued' = tokensIssued
  /\ refreshTokens' \subseteq refreshTokens

\* a refresh token that has left the store is never stored again, and a
\* refresh request that presents a token that is not stored gets 401
RemovedTokenIsRejected ==
  /\ \A t \in 1..tokensIssued : ~TokenIn(refreshTokens, t) => ~TokenIn(refreshTokens', t)
  /\ \A r \in Slots :
       (inflight[r] = Idle /\ inflight'[r] # Idle /\ inflight'[r].route = "refresh")
         => TokenIn(refreshTokens, inflight'[r].token)
  /\ AnswersAtOnce("refresh") =>
       (~TokenIn(refreshTokens, last'.token) /\ last'.status = 401)

C16_ExpiredOrUnknownRejected ==
  [][/\ AnswersAtOnce("refresh") =>
          (~TokenIn(refreshTokens, last'.token) /\ last'.status = 401 /\ NoTokensIssued)
     /\ \A r \in Slots :
          (Finishes(r) /\ inflight[r].route = "refresh" /\ inflight[r].expired)
            => /\ last'.route = "refresh" /\ last'.status = 401
               /\ NoTokensIssued
               /\ ~TokenIn(refreshTokens', inflight[r].token)]_vars

\* C17: a logout request with a valid access token removes the presented
\* refresh token from the store, so that it can no longer be used to
\* refresh; a logout request without a valid access token gets 401 and
\* leaves the store unchanged.
C17_LogoutRevokesToken ==
  [][/\ AnswersAtOnce("logout") =>
          IF ValidAccess(last'.cred)
            THEN last'.status = 200 /\ ~TokenIn(refreshTokens', last'.token)
            ELSE last'.status = 401 /\ refreshTokens' = refreshTokens
     /\ \A t \in 1..tokensIssued : ~TokenIn(refreshTokens, t) => ~TokenIn(refreshTokens', t)
     /\ \A r \in Slots :
          (Finishes(r) /\ inflight[r].route = "refresh" /\ last'.status = 200)
            => TokenIn(refreshTokens, inflight[r].token)]_vars

C17_Witness ==
  /\ last.route = "logout" /\ last.status = 200 /\ ValidAccess(last.cred)
  /\ last.token = 1 /\ ~TokenIn(refreshTokens, 1)
  /\ Cardinality(refreshTokens) >= 1

\* C19: registering with an email that is already registered gets 400,
\* creates no user and no refresh token; after any sequence of register
\* requests there is at most one user per email.
C19_OneUserPerEmail ==
  [][/\ \A e \in Emails :
          (AnswersAtOnce("register") /\ last'.email = e)
            => /\ \E u \in users : u.email = e
               /\ last'.status = 400
               /\ users' = users /\ NoTokensIssued /\ refreshTokens' = refreshTokens
     /\ \A r \in Slots :
          (inflight[r] = Idle /\ inflight'[r] # Idle /\ inflight'[r].route = "register")
            => ~(\E u \in users : u.email = inflight'[r].email)
     /\ (last'.route = "register" /\ last'.status # 201 /\ last' # last)
          => (users' = users /\ refreshTokens' = refreshTokens)
     /\ \A u1, u2 \in users' : u1.email = u2.email => u1 = u2]_vars

C19_Witness ==
  /\ last.route = "register" /\ last.status = 400
  /\ last.email = "test@example.com"
  /\ Cardinality(users) = 2

----------------------------------------------------------------------------
(* Habits and completions: notions and properties *)

\* the routes behind the authenticate hook
ProtectedRoutes ==
  {"me", "logout", "habits.list", "habits.get", "habits.create", "habits.patch",
   "habits.delete", "completions.list", "complete", "remove", "toggle",
   "analytics.overview", "analytics.calendar", "analytics.habit"}

\* the stored habit has the parameters its kind requires
HasRequiredParameters(h) ==
  /\ h.frequency = "CUSTOM" => (h.customDays # {} /\ h.customDays \subseteq 0..6)
  /\ h.frequency = "WEEKLY" => h.targetPerWeek \in 1..7
  /\ h.frequency = "INTERVAL" => h.intervalDays >= 2

\* the user a valid bearer token names
Caller(cred) == cred.userId

\* C13: after any sequence of complete, toggle and remove-completion
\* requests, two requests for the same habit and date interleaving between
\* the existence check and the write included, each habit has at most one
\* stored completion per calendar date.
C13_OneCompletionPerDate ==
  \A c1, c2 \in habitCompletions :
    (c1.habitId = c2.habitId /\ c1.completedAt = c2.completedAt) => c1 = c2

C13_Witness ==
  /\ last.route \in {"complete", "toggle"} /\ last.status = 500
  /\ Cardinality(findCompletion(last.habit, last.date)) = 1

\* C14: after any sequence of habit create and PATCH requests every stored
\* habit has the parameters its kind requires, present and valid: CUSTOM a
\* non-empty customDays within 0..6, WEEKLY a targetPerWeek in 1..7,
\* INTERVAL an intervalDays >= 2.
C14_StoredHabitsHaveParameters == \A h \in habits : HasRequiredParameters(h)

\* C18: a request to a protected endpoint with no token, an invalid token or
\* an expired token gets 401 and the route handler does not run: nothing is
\* read into the response and nothing is written.
C18_NoTokenNoHandler ==
  [][/\ (last' # last /\ last'.route \in ProtectedRoutes /\ ~ValidAccess(last'.cred))
          => /\ last'.status = 401
             /\ last'.data = {} /\ last'.habit = 0 /\ last'.date = 0
             /\ UNCHANGED <<users, refreshTokens, tokensIssued, habits, habitCompletions>>
             /\ UNCHANGED inflight
     /\ \A r \in Slots :
          (inflight[r] = Idle /\ inflight'[r] # Idle) => ValidAccess(inflight'[r].cred)
     /\ (last' = last /\ inflight' = inflight)
          => UNCHANGED <<users, refreshTokens, tokensIssued, habits, habitCompletions>>]_vars

C18_Witness ==
  /\ last.route = "habits.delete" /\ last.status = 401
  /\ last.cred = jwtSign(1, 0) /\ serverTime = 1
  /\ \A h \in habits : ~h.archived

\* C20: DELETE /api/habits/:id on a habit of the caller sets archived = true
\* and changes nothing else: no habit and no completion is removed; while
\* archived the habit is in neither the default list, the overview nor the
\* calendar, and it is in the list with includeArchived=true.
C20_DeleteArchives ==
  [][/\ (last' # last /\ last'.route = "habits.delete" /\ last'.status # 401)
          => IF findHabit(last'.habit, Caller(last'.cred)) = {}
               THEN last'.status = 404 /\ habits' = habits
               ELSE /\ last'.status = 200
                    /\ \E h \in findHabit(last'.habit, Caller(last'.cred)) :
                         habits' = (habits \ {h}) \cup {[h EXCEPT !.archived = TRUE]}
     /\ last'.route = "habits.delete" => habitCompletions' = habitCompletions
     /\ {h.id : h \in habits} \subseteq {h.id : h \in habits'}
     /\ \A h \in habits' :
          (h.archived /\ last'.status = 200 /\ last' # last /\ h.userId = Caller(last'.cred))
            => /\ last'.route = "habits.list" => (h.id \in last'.data <=> last'.includeArchived)
               /\ last'.route = "analytics.overview" => h.id \notin last'.data
               /\ last'.route = "analytics.calendar" =>
                    \A entry \in last'.data : h.id \notin DOMAIN entry.habits]_vars

C20_Witness ==
  /\ last.route = "analytics.calendar" /\ last.status = 200 /\ last.data = {}
  /\ \E h \in habits : h.id = 1 /\ h.archived /\ h.frequency = "WEEKLY"
  /\ Cardinality({c \in habitCompletions : c.habitId = 1}) = 2

----------------------------------------------------------------------------
(* Engine: schedule independence, histograms, variants *)

\* C21: for the non-interval kinds the streak does not depend on the
\* scheduling rule: for the same completions and the same today, the streak
\* under Weekly(target) and under CustomDays(days), for any target and any
\* day set, equals the streak under Daily.
C21_StreakIgnoresSchedule ==
  (analytics.done /\ habit.frequency \in {"WEEKLY", "CUSTOM"}) =>
    LET daily == calculateStreak(completionDates, "DAILY", {}, 0, now)
    IN /\ analytics.currentStreak = daily.current
       /\ analytics.longestStreak = daily.longest

C21_Witness ==
  /\ analytics.done /\ habit.frequency = "CUSTOM" /\ habit.customDays = {0}
  /\ getDay(parseDate(today)) # 0
  /\ {today, today - 1} \subseteq completions
  /\ analytics.currentStreak >= 2

\* the stored completions, one per date
TotalCompletions == Cardinality(completions)

\* C22: the per-weekday histogram has 7 buckets indexed 0 (Sunday) to 6
\* (Saturday); each completion increments exactly the bucket of its weekday,
\* so the buckets sum to the total number of completions of the habit.
C22_WeekdayHistogram ==
  analytics.done =>
    LET h == analytics.completionsByDay
    IN /\ DOMAIN h = 0..6
       /\ \A day \in 0..6 : h[day] = Cardinality({c \in completions : weekdayOf(c) = day})
       /\ h[0] + h[1] + h[2] + h[3] + h[4] + h[5] + h[6] = TotalCompletions
       \* 1972-02-27 was a Sunday, 1972-03-04 a Saturday
       /\ 787 \in completions => h[0] >= 1
       /\ 793 \in completions => h[6] >= 1

C22_Witness ==
  /\ analytics.done
  /\ {787, 793, 710} \subseteq completions
  /\ analytics.completionsByDay[0] = 2
  /\ analytics.completionsByDay[6] >= 1
  /\ TotalCompletions >= 5

\* the sum of the counts of the buckets 1..k of a histogram
RECURSIVE SumCounts(_, _)
SumCounts(h, k) == IF k = 0 THEN 0 ELSE h[k].count + SumCounts(h, k - 1)

\* the completions dated from lo through hi
CompletedBetween(lo, hi) == {c \in completions : lo <= c /\ c <= hi}

\* C23: the last-12-weeks histogram has 12 buckets ordered oldest first, each
\* a 7-day window labelled by its start date, the newest window containing
\* today; every completion dated from the oldest window's start through the
\* newest window's end is counted in exactly one bucket, so the buckets sum
\* to the number of completions in that trailing 12-week range.
C23_WeekHistogram ==
  analytics.done =>
    LET w == analytics.completionsByWeek
    IN /\ DOMAIN w = 1..12
       /\ \A k \in 1..11 : w[k + 1].week = w[k].week + 7
       /\ w[12].week <= today /\ today <= w[12].week + 6
       /\ \A k \in 1..12 :
            w[k].count = Cardinality(CompletedBetween(w[k].week, w[k].week + 6))
       /\ SumCounts(w, 12) = Cardinality(CompletedBetween(w[1].week, w[12].week + 6))

\* the calendar month after a month
NextMonth(ym) ==
  IF ym.month = 11 THEN [year |-> ym.year + 1, month |-> 0]
  ELSE [year |-> ym.year, month |-> ym.month + 1]

\* the calendar month of a completion date
MonthOf(c) == civilMonth(parseDate(c))

\* C24: the last-12-months histogram has 12 buckets ordered oldest first,
\* labelled with 12 distinct consecutive calendar months that end with the
\* month of today, year boundaries included; each completion whose
\* year-month is one of them is counted in exactly that bucket, and
\* completions outside them are counted in none.
C24_MonthHistogram ==
  analytics.done =>
    LET m == analytics.completionsByMonth
    IN /\ DOMAIN m = 1..12
       /\ m[12].month = civilMonth(now)
       /\ \A k \in 1..12 : m[k].month.month \in 0..11
       /\ \A k \in 1..11 : m[k + 1].month = NextMonth(m[k].month)
       /\ \A j, k \in 1..12 : j # k => m[j].month # m[k].month
       /\ \A k \in 1..12 :
            m[k].count = Cardinality({c \in completions : MonthOf(c) = m[k].month})
       /\ SumCounts(m, 12)
            = Cardinality({c \in completions : \E k \in 1..12 : MonthOf(c) = m[k].month})
       \* 1971-12-31 and 1972-01-01 are in the range whichever day today is
       /\ {729, 730} \subseteq completions
            => \E k \in 1..11 : m[k].count >= 1 /\ m[k + 1].count >= 1
                                /\ m[k].month.year = 1971 /\ m[k + 1].month.year = 1972

C24_Witness ==
  /\ analytics.done /\ today = 790
  /\ {454, 455, 730} \subseteq completions
  /\ analytics.completionsByMonth[1].month = [year |-> 1971, month |-> 3]
  /\ analytics.completionsByMonth[1].count = 1
  /\ analytics.completionsByMonth[10].month = [year |-> 1972, month |-> 0]
  /\ analytics.completionsByMonth[10].count = 1
  /\ SumCounts(analytics.completionsByMonth, 12) < TotalCompletions

----------------------------------------------------------------------------
(* Calendar, toggle, ownership *)

\* the length of a list kept as the number of entries per element
RECURSIVE ListLength(_)
ListLength(b) ==
  IF DOMAIN b = {} THEN 0
  ELSE LET x == CHOOSE y \in DOMAIN b : TRUE
       IN b[x] + ListLength([y \in DOMAIN b \ {x} |-> b[y]])

\* the non-archived habits of a user that have a completion on a date
CompletedOn(userId, date) ==
  {h \in habits : /\ h.userId = userId /\ ~h.archived
                  /\ \E c \in habitCompletions : c.habitId = h.id /\ c.completedAt = date}

\* C25: in the calendar aggregation each date appears at most once, and only
\* when some habit was completed on it; for each date the count equals the
\* length of its habit list and the number of the caller's non-archived
\* habits with a completion on that date within the requested range; no
\* habit of another user and no archived habit is listed.
C25_CalendarCounts ==
  \A u \in users, from \in Dates, to \in Dates :
    LET data == calendarData(u.id, from, to)
    IN /\ \A e1, e2 \in data : e1.date = e2.date => e1 = e2
       /\ \A e \in data :
            /\ from <= e.date /\ e.date <= to
            /\ CompletedOn(u.id, e.date) # {}
            /\ e.count = ListLength(e.habits)
            /\ e.count = Cardinality(CompletedOn(u.id, e.date))
            /\ DOMAIN e.habits = {h.id : h \in CompletedOn(u.id, e.date)}
            /\ \A id \in DOMAIN e.habits : e.habits[id] = 1

C25_Witness ==
  /\ last.route = "analytics.calendar" /\ last.status = 200
  /\ last.cred.userId = 1 /\ last.from = 1 /\ last.to = 2
  /\ last.data = calendarData(1, 1, 2)
  /\ \E e \in last.data : e.date = 1 /\ e.count = 2
  /\ \E e \in last.data : e.date = 2 /\ e.count = 1
  /\ \E h \in habits : h.userId = 2 /\ h.archived
  /\ \E c \in habitCompletions : c.habitId = 3 /\ c.completedAt = 2

\* C26: a stored refresh token yields at most one successful refresh: when
\* two refresh requests with the same token both look it up before either
\* deletes it, at most one returns 200 with a new token pair, and at most
\* one new refresh token is stored for that redemption.
C26_OneRedemptionPerToken ==
  [][/\ \A r \in Slots :
          (Finishes(r) /\ inflight[r].route = "refresh") =>
            /\ last'.route = "refresh" /\ last'.token = inflight[r].token
            /\ IF last'.status = 200
                 THEN /\ TokenIn(refreshTokens, inflight[r].token)
                      /\ ~TokenIn(refreshTokens', inflight[r].token)
                      /\ Cardinality(refreshTokens' \ refreshTokens) = 1
                      /\ tokensIssued' = tokensIssued + 1
                      /\ \A row \in refreshTokens' \ refreshTokens : row.token = last'.issued
                 ELSE /\ refreshTokens' \subseteq refreshTokens
                      /\ tokensIssued' = tokensIssued
                      /\ last'.issued = 0 /\ last'.access = NoCred
            /\ \A q \in Slots \ {r} :
                 (inflight[q] # Idle /\ inflight[q].token = inflight[r].token
                  /\ last'.status = 200)
                   => ~TokenIn(refreshTokens', inflight'[q].token)
     /\ \A t \in 1..tokensIssued :
          ~TokenIn(refreshTokens, t) => ~TokenIn(refreshTokens', t)]_vars

C26_Witness ==
  /\ last.route = "refresh" /\ last.status = 200 /\ last.token = 1
  /\ TokenIn(refreshTokens, last.issued) /\ ~TokenIn(refreshTokens, 1)
  /\ \E r \in Slots :
       /\ inflight[r] # Idle /\ inflight[r].route = "refresh"
       /\ inflight[r].token = 1 /\ ~inflight[r].expired

\* the habit has a completion for the date in the given table
CompletedIn(rows, habitId, date) ==
  \E c \in rows : c.habitId = habitId /\ c.completedAt = date

\* the completions of other dates and of other habits
OtherCompletions(rows, habitId, date) ==
  {c \in rows : ~(c.habitId = habitId /\ c.completedAt = date)}

HabitRoutes ==
  {"habits.get", "habits.patch", "habits.delete", "completions.list", "complete",
   "remove", "toggle", "analytics.habit"}

\* the habit exists and its owner is not the user of the bearer token
NotOwn(cred, habitId) == \E h \in habits : h.id = habitId /\ h.userId # cred.userId

\* the rows that differ between two tables
Changed(old, new) == (old \ new) \cup (new \ old)

\* this step writes only habits of the user it answers, and completions of
\* such habits, and takes up no request on another user's habit
WritesOwnOnly ==
  /\ \A h \in Changed(habits, habits') : h.userId = Caller(last'.cred)
  /\ \A c \in Changed(habitCompletions, habitCompletions') :
       \E h \in habits : h.id = c.habitId /\ h.userId = Caller(last'.cred)
  /\ \A r \in Slots :
       (inflight[r] = Idle /\ inflight'[r] # Idle)
         => ~NotOwn(inflight'[r].cred, inflight'[r].habit)

\* this step answers a request of a user that names a habit of another user
AnswersForeign ==
  /\ last' # last /\ last'.route \in HabitRoutes
  /\ ValidAccess(last'.cred) /\ NotOwn(last'.cred, last'.habit)

\* C28 (as claimed): a request authenticated as user U never reads, updates,
\* archives, or adds or removes completions of a habit whose owner is not U:
\* every habit, completion and per-habit analytics request naming such a
\* habit is answered 404 and leaves all stored habits and completions
\* unchanged.
C28_ForeignHabitIs404 ==
  [][/\ AnswersForeign =>
          /\ last'.status = 404 /\ last'.data = {}
          /\ UNCHANGED <<habits, habitCompletions, inflight>>
     /\ WritesOwnOnly]_vars

\* C28 (amended): such a request is answered 404, or 400 when its body fails
\* validation, which PATCH and the completion POSTs check before they look
\* the habit up; nothing of the habit is read into the answer and all stored
\* habits and completions are unchanged.
C28_ForeignHabitIsRejected ==
  [][/\ AnswersForeign =>
          /\ last'.status \in {400, 404} /\ last'.data = {}
          /\ last'.status = 400 => last'.route \in {"habits.patch", "complete", "toggle"}
          /\ UNCHANGED <<habits, habitCompletions, inflight>>
     /\ WritesOwnOnly]_vars

C28_Witness ==
  /\ last.route = "toggle" /\ last.status = 404
  /\ ValidAccess(last.cred) /\ last.cred.userId = 1 /\ last.habit = 2
  /\ \E h \in habits : h.id = 2 /\ h.userId = 2
  /\ CompletedIn(habitCompletions, 2, 1)
  /\ ~CompletedIn(habitCompletions, 1, 1)

\* C29: the two engine variants agree on the kinds they share: for DAILY,
\* WEEKLY or CUSTOM and identical completions, creation date, customDays,
\* targetPerWeek and today, calculateStreak and calculateCompletionRate of
\* routes/analytics.ts return the same values as those of the
\* interval-capable variant, whatever the value of intervalDays.
C29_VariantsAgree ==
  (analytics.done /\ DayRule) =>
    LET dated == datedCalculateStreak(completionDates, habit.frequency,
                                      habit.customDays, now)
        datedRate == datedCalculateCompletionRate(completionDates, habit.createdAt,
                                                  habit.frequency, habit.customDays,
                                                  habit.targetPerWeek, now)
    IN /\ StreakOf(completionDates) = dated
       /\ RateOf(completionDates) = datedRate
       /\ analytics.currentStreak = dated.current
       /\ analytics.longestStreak = dated.longest
       /\ analytics.completionRate = datedRate

C29_Witness ==
  /\ analytics.done /\ habit.frequency = "CUSTOM" /\ habit.customDays = {1, 3, 5}
  /\ habit.intervalDays = 2
  /\ analytics.currentStreak >= 2
  /\ analytics.longestStreak > analytics.currentStreak
  /\ analytics.completionRate > 0 /\ analytics.completionRate < 100

----------------------------------------------------------------------------
(* Web client *)

\* the call's refresh was answered 200 and its pair was stored
Refreshed(c) == client.calls[c].retries = 1

\* the call's refresh failed, and the call has returned
RefreshFailed(c) ==
  /\ client.calls[c].pc = "done"
  /\ client.calls[c].refreshes = 1
  /\ client.calls[c].retries = 0

\* every call of api() has returned, each after a 401 and a refresh; one
\* refresh succeeded, and each refresh that failed had sent the token a
\* successful refresh of another call rotated
ConcurrentRefreshesDone ==
  /\ \A c \in Calls : client.calls[c].pc = "done" /\ client.calls[c].refreshes = 1
  /\ \E d \in Calls : Refreshed(d)
  /\ \A c \in Calls :
       RefreshFailed(c) =>
         \E d \in Calls \ {c} : Refreshed(d) /\ client.calls[d].rt = client.calls[c].rt

\* the client holds, in memory and in localStorage, the pair a successful
\* refresh was answered
HoldsIssuedPair ==
  \E d \in Calls :
    /\ Refreshed(d)
    /\ client.accessToken = client.calls[d].pair.accessToken
    /\ client.refreshToken = client.calls[d].pair.refreshToken
    /\ client.localStorage = client.calls[d].pair

\* C30: when several api() calls are in flight and each receives 401 while
\* the client holds a refresh token the server accepts, then once all calls
\* have finished the client holds the token pair issued by the successful
\* refresh in memory and in localStorage: a refresh that fails because its
\* token was already rotated by a concurrent call does not clear the newly
\* stored tokens.  Each api() call issues at most one refresh and at most
\* one retry of its request.
C30_ConcurrentRefreshKeepsTokens ==
  /\ ConcurrentRefreshesDone => HoldsIssuedPair
  /\ \A c \in Calls : client.calls[c].refreshes <= 1 /\ client.calls[c].retries <= 1

====
